---- MODULE Spec2Model ----
EXTENDS Integers, Sequences, FiniteSets, TLC

(***************************************************************************)
(* A model of the vector payment-channel core:                             *)
(*   - the update protocol between the two peers of one channel            *)
(*     (Vector.executeUpdate, the onReceiveProtocolMessage handler, the    *)
(*     startup dispute check, VectorEngine.restoreState);                  *)
(*   - the router's forwarding engine and check-in handler                 *)
(*     (forwardTransferCreation, forwardTransferResolution, handleIsAlive).*)
(***************************************************************************)

\* ------------------------------------------------------------------ bounds

\* Number of outbound exchanges (reply inboxes) the two leaders open in a run.
MaxOps == 2

\* Number of exchanges opened in a run in which the channel gets disputed.
MaxDisputeOps == 1

\* Amount reconciled by one deposit update and locked by one transfer.
DepositAmount == 1
TransferAmount == 1

\* Runs of restoreState in a run of the restore specification.
MaxRestores == 2

\* Rebalance profiles in the router's configuration, and the chains they
\* are for.
MaxProfiles == 2
MaxChains == 2

\* The largest timeout of a sender transfer, and the margin the router takes
\* off it (TRANSFER_DECREMENT of vector-types).
MaxTimeout == 4
TRANSFER_DECREMENT == 2

\* The messages the transport delivers that no leader sent as they are.
MaxFaults == 1

\* The runs of crossChainTransfer for one crossChainTransferId.
MaxRuns == 3

\* The calls of acquireRestoreLocks and releaseRestoreLocks of one engine.
MaxLockCalls == 3

\* The milliseconds between two looks at the clock of a waiting withdraw.
TickMs == 15000

\* The wait of withdraw for the reconciliation of the withdrawal.
WithdrawTimeout == 90000

\* Iterations of the retry loop of the engine's deposit.
DepositRetries == 3

\* Routed payments the sender creates, and handleIsAlive runs that can be
\* in progress at once.
MaxPayments == 2
MaxHandlers == 1

\* ------------------------------------------------------------- protocol data

Peers == {"alice", "bob"}

Other(p) == IF p = "alice" THEN "bob" ELSE "alice"

ZeroBal == [q \in Peers |-> 0]

\* UpdateType of @connext/vector-types, as used by executeUpdate.
UpdateTypes == {"setup", "deposit", "create", "resolve"}

NoUpdate ==
  [type |-> "none", nonce |-> 0, from |-> "none", tid |-> 0, pay |-> FALSE,
   bal |-> ZeroBal, root |-> {}, sigs |-> {}]

\* The store's answer for a channel that is not stored (getChannelState
\* returns undefined): nonce 0.
NoChannel ==
  [nonce |-> 0, bal |-> ZeroBal, root |-> {}, latest |-> NoUpdate, inDispute |-> FALSE]

\* generateMerkleTreeData(transfers).root: a commitment to the set of the
\* transfers' ids.
MerkleRoot(X) == {t.id : t \in X}

VARIABLES
  chan,            \* chan[p]: the channel record p's store holds
  xfers,           \* xfers[p]: the active transfers p's store holds
  lock,            \* the lock service's lock for the channel address
  op,              \* op[p]: p's executeUpdate invocation
  net,             \* protocol messages sent (each may be delivered any number of times)
  replies,         \* replies sent to reply inboxes
  nextInbox,       \* next unused reply inbox
  evts,            \* evts[p]: nonces of the CHANNEL_UPDATE_EVENTs p posted, in order
  applied,         \* applied[p]: what p's store went through, in order
  onchainDispute,  \* chainReader.getChannelDispute finds a dispute
  restoreLocks,    \* restoreLocks[p]: VectorEngine.restoreLocks[channelAddress] is set
  rst,             \* the restore exchange in progress
  dep,             \* the engine's deposit in progress
  rebalance,       \* the router's config.rebalanceProfiles and its last lookup
  fparams,         \* a sender transfer and the params the router forwards it with
  wd,              \* the engine's withdraw: its position, its wait and its result
  rlk,             \* rlk[p]: the restore lock of p's engine and the calls about it
  cct,             \* the browser node's cross-chain transfer: record, run and effects
  senderTransfer,  \* senderTransfer[i]: payment i's transfer on the sender channel
  outgoing,        \* outgoing[i]: transfers created for payment i on the recipient channel
  recipientResolved, \* recipientResolved[i]: the recipient resolved payment i's transfer
  fwd,             \* fwd[i]: what forwardTransferCreation did and returned for payment i
  rsl,             \* rsl[i]: what forwardTransferResolution did and returned for payment i
  rslCall,         \* rslCall[i]: the params it called nodeService.resolveTransfer with
  queue,           \* the router store's queued updates, in insertion order
  hdl              \* hdl[h]: a running handleIsAlive

protoVars == <<chan, xfers, lock, op, net, replies, nextInbox, evts, applied, onchainDispute>>

\* The state of the operations of a node that are modelled on their own.
nodeVars == <<wd, rlk, cct>>

restoreVars == <<restoreLocks, rst, dep, rebalance, fparams, nodeVars>>

routerVars == <<senderTransfer, outgoing, recipientResolved, fwd, rsl, rslCall, queue, hdl>>

vars == <<protoVars, restoreVars, routerVars>>

FreeLock == [by |-> "none", kind |-> "none"]

IdleOp == [pc |-> "idle", params |-> [type |-> "none", tid |-> 0, pay |-> FALSE],
           update |-> NoUpdate, base |-> NoChannel, inbox |-> 0, res |-> "none"]

\* The stages a stored cross-chain transfer has completed.
CrossChainTransferStatus == [INITIAL |-> 0, DEPOSITED |-> 1, TRANSFER_1 |-> 2, TRANSFER_2 |-> 3]

\* No record of the cross-chain transfer in the store.
NoRecord ==
  [status |-> -1, error |-> FALSE, reconcileDeposit |-> FALSE,
   withdrawalAddress |-> FALSE, preImage |-> 0, withdrawalAmount |-> 0]

\* No run of crossChainTransfer going. A preImage or an amount of 0 stands
\* for undefined.
NoRun ==
  [pc |-> "idle", startStage |-> 0, reconcileDeposit |-> FALSE,
   withdrawalAddress |-> FALSE, paramsPreImage |-> 0, paramsWithdrawalAmount |-> 0,
   preImage |-> 0, storePreImage |-> 0, storeWithdrawalAmount |-> 0,
   receiverTransferData |-> 0, withdrawalAmount |-> 0, res |-> "none"]

\* No receiver-side transfer with the routingId in the receiver channel.
NoReceiverTransfer == [present |-> FALSE, amount |-> 0, lock |-> 0, resolved |-> FALSE]

\* The browser node before any cross-chain transfer: the record in the
\* store, the run, the deposits reconciled, the preImages of the sender-side
\* transfers created, the receiver-side transfer, the amounts withdrawn, the
\* runs started and the random preImages drawn.
NoCrossChainTransfer ==
  [rec |-> NoRecord, run |-> NoRun, deposits |-> 0, locks |-> <<>>,
   receiver |-> NoReceiverTransfer, withdrawals |-> <<>>, runs |-> 0, drawn |-> 0]

\* An engine that has no restore lock and no call about one going: the value
\* recorded in this.restoreLocks (0: none), the value the lock service holds
\* the lock with for this engine, the calls of acquireRestoreLocks waiting
\* for the lock, the values the calls of releaseRestoreLocks going passed to
\* the lock service, and the calls made, the locks acquired and released.
NoRestoreLock ==
  [recorded |-> 0, held |-> 0, acquiring |-> 0, releasing |-> <<>>,
   calls |-> 0, acquired |-> 0, released |-> 0, res |-> "none"]

\* The engine before withdraw is called.
NoEvent == [channelAddress |-> "none", transferId |-> 0, transactionHash |-> "none"]

IdleWithdraw ==
  [pc |-> "idle", channelAddress |-> "none", transferId |-> 0, clock |-> 0,
   event |-> NoEvent, res |-> "none", transactionHash |-> "none"]

\* A sender transfer as forwardTransferCreation reads it: its timeout, its
\* meta (an object: a function from its keys) and which participant of the
\* sender channel initiated it.
NoTransfer ==
  [transferTimeout |-> 0, initiator |-> "alice", meta |-> [routingId |-> "r1"]]

\* The transfer before the router made the params of the outgoing transfer.
NoParams(transfer) ==
  [transfer |-> transfer, made |-> FALSE, timeout |-> 0, meta |-> transfer.meta]

\* The router configured with profiles, before any lookup of a profile.
NoProfile == [chainId |-> 0, assetId |-> "none", target |-> "none"]

NoLookup(profiles) ==
  [profiles |-> profiles, looked |-> FALSE, chainId |-> 0, assetId |-> "none",
   res |-> [isError |-> FALSE, reason |-> "none",
            context |-> [chainId |-> 0, assetId |-> "none"], value |-> NoProfile]]

\* No deposit of the engine has run: count attempts of vector.deposit were
\* made, res is the result of the last and log the results of all, in order.
IdleDeposit == [pc |-> "idle", count |-> 0, res |-> "none", log |-> <<>>]

IdleRestore == [pc |-> "idle", req |-> "none", hasData |-> FALSE, channel |-> NoChannel,
                activeTransfers |-> {}, addrOk |-> TRUE, res |-> "none", sent |-> "none",
                posted |-> FALSE, count |-> 0, again |-> FALSE]

RoutingIds == 1..MaxPayments

\* The runs of handleIsAlive of a router that handles one IsAlive signal
\* after the other, and those of one that handles one more at the same time.
Handlers == 1..MaxHandlers
ConcurrentHandlers == 1..(MaxHandlers + 1)

NoForward == [state |-> "none", created |-> FALSE, queued |-> FALSE, cancelled |-> "no",
              isError |-> FALSE, result |-> "none"]

\* No call of nodeService.resolveTransfer.
NoCall == [channelAddress |-> "none", transferId |-> <<"none", 0>>, transferResolver |-> "none"]

IdleHandler == [pc |-> "idle", channel |-> "none", todo |-> <<>>, errored |-> <<>>,
                result |-> "none"]

\* A channel after setup and one deposit of each peer, stored by both: what a
\* node finds in its store when it is started on an existing channel.
FundedChannel ==
  [nonce |-> 3, bal |-> [q \in Peers |-> DepositAmount], root |-> {},
   latest |-> [type |-> "deposit", nonce |-> 3, from |-> "bob", tid |-> 0, pay |-> FALSE,
               bal |-> [q \in Peers |-> DepositAmount], root |-> {}, sigs |-> Peers],
   inDispute |-> FALSE]

Boot(c) == <<[kind |-> "boot", nonce |-> c.nonce, type |-> "none"]>>

\* Both nodes started on a store that holds c, with firstInbox the first
\* unused reply inbox, and the router on a store whose queue holds `stored`,
\* configured with profiles and about to forward transfer.
StartForwarding(c, firstInbox, stored, profiles, transfer) ==
  /\ chan = [p \in Peers |-> c]
  /\ applied = [p \in Peers |-> Boot(c)]
  /\ nextInbox = firstInbox
  /\ xfers = [p \in Peers |-> {}]
  /\ lock = FreeLock
  /\ op = [p \in Peers |-> IdleOp]
  /\ net = {}
  /\ replies = {}
  /\ evts = [p \in Peers |-> <<>>]
  /\ onchainDispute = FALSE
  /\ restoreLocks = [p \in Peers |-> FALSE]
  /\ rst = IdleRestore
  /\ dep = IdleDeposit
  /\ rebalance = NoLookup(profiles)
  /\ fparams = NoParams(transfer)
  /\ wd = IdleWithdraw
  /\ rlk = [p \in Peers |-> NoRestoreLock]
  /\ cct = NoCrossChainTransfer
  /\ senderTransfer = [i \in RoutingIds |-> "none"]
  /\ outgoing = [i \in RoutingIds |-> 0]
  /\ recipientResolved = [i \in RoutingIds |-> FALSE]
  /\ fwd = [i \in RoutingIds |-> NoForward]
  /\ rsl = [i \in RoutingIds |-> "none"]
  /\ rslCall = [i \in RoutingIds |-> NoCall]
  /\ queue = stored
  /\ hdl = [h \in ConcurrentHandlers |-> IdleHandler]

\* The start of a router that has no sender transfer to forward yet.
StartConfigured(c, firstInbox, stored, profiles) ==
  StartForwarding(c, firstInbox, stored, profiles, NoTransfer)

\* The start of a router with no rebalance profile configured.
Start(c, firstInbox, stored) == StartConfigured(c, firstInbox, stored, <<>>)

Init == \E c \in {NoChannel, FundedChannel} : Start(c, 1, <<>>)

\* ------------------------------------------- sync: making and applying updates

Responder(t) == Other(t.initiator)

\* The balance an update leaves in the channel: a deposit adds the reconciled
\* amount to the depositor, a create locks the transfer's amount out of the
\* initiator's balance, a resolve pays it to the party the resolver names.
NextBalance(c, X, u) ==
  CASE u.type = "setup" -> ZeroBal
    [] u.type = "deposit" -> [c.bal EXCEPT ![u.from] = @ + DepositAmount]
    [] u.type = "create" -> [c.bal EXCEPT ![u.from] = @ - TransferAmount]
    [] u.type = "resolve" ->
         LET t == CHOOSE t \in X : t.id = u.tid
             payee == IF u.pay THEN Responder(t) ELSE t.initiator
         IN  [c.bal EXCEPT ![payee] = @ + TransferAmount]
    [] OTHER -> c.bal

\* transferId: fixed by the channel, the nonce at creation and the transfer's
\* initial state (here: who funds it).
TransferId(nonce, from) == 2 * nonce + (IF from = "alice" THEN 0 ELSE 1)

\* The active transfers an update leaves: a create adds the transfer, a
\* resolve removes it.
NextTransfers(X, u) ==
  CASE u.type = "create" -> X \cup {[id |-> TransferId(u.nonce, u.from), initiator |-> u.from]}
    [] u.type = "resolve" -> {t \in X : t.id # u.tid}
    [] OTHER -> X

\* Update validation that does not look at the dispute flag.
TypeAllowsInDispute(c, X, from, type, tid) ==
  CASE type = "setup" -> c.nonce = 0
    [] type = "deposit" -> c.nonce >= 1
    [] type = "create" -> c.nonce >= 1 /\ c.bal[from] >= TransferAmount
    [] type = "resolve" ->
         c.nonce >= 1 /\ \E t \in X : t.id = tid /\ Responder(t) = from
    [] OTHER -> FALSE

\* Whether an update of this type by `from` can be made on top of (c, X).
TypeAllows(c, X, from, type, tid) ==
  /\ ~c.inDispute
  /\ CASE type = "setup" -> c.nonce = 0
       [] type = "deposit" -> c.nonce >= 1
       [] type = "create" -> c.nonce >= 1 /\ c.bal[from] >= TransferAmount
       [] type = "resolve" ->
            c.nonce >= 1 /\ \E t \in X : t.id = tid /\ Responder(t) = from
       [] OTHER -> FALSE

\* Outbound step 2: the update the leader p signs for params on top of (c, X).
GenerateUpdate(c, X, p, params) ==
  LET u0 == [type |-> params.type,
             nonce |-> IF params.type = "setup" THEN 1 ELSE c.nonce + 1,
             from |-> p, tid |-> params.tid, pay |-> params.pay,
             bal |-> ZeroBal, root |-> {}, sigs |-> {p}]
  IN  [u0 EXCEPT !.bal = NextBalance(c, X, u0),
                 !.root = MerkleRoot(NextTransfers(X, u0))]

\* Inbound step 4: the update's content recomputed from the local view.
InboundValid(c, X, u) ==
  /\ u.type \in UpdateTypes
  /\ u.nonce = c.nonce + 1
  /\ u.from \in u.sigs
  /\ TypeAllows(c, X, u.from, u.type, u.tid)
  /\ u.bal = NextBalance(c, X, u)
  /\ u.root = MerkleRoot(NextTransfers(X, u))

\* The channel and transfers after `me` counter-signed and applied u.
ApplyUpdate(c, X, u, me) ==
  [chan |-> [nonce |-> u.nonce, bal |-> u.bal, root |-> u.root,
             latest |-> [u EXCEPT !.sigs = @ \cup {me}], inDispute |-> c.inDispute],
   xfers |-> NextTransfers(X, u)]

Rejected(c, X, kind, u) ==
  [ok |-> FALSE, chan |-> c, xfers |-> X, kind |-> kind, update |-> u, nonces |-> <<>>]

\* An inbound that takes every update more than one nonce ahead to need a
\* restore.
SyncsNever(c, u, prev) == FALSE

\* Inbound step 3, the sync case: the update is two nonces ahead of the local
\* channel and previousUpdate is the one in between.
SyncsFirst(c, u, prev) == u.nonce - c.nonce = 2 /\ prev.nonce = c.nonce + 1

\* sync.inbound at `me`, whose store holds (c, X): the nonce comparison of
\* inbound step 3, the validation of step 4 and the counter-signing of step 5.
\* kind and update are the reply sent to the inbox; nonces are the nonces of
\* the updates applied.
Inbound(c, X, u, prev, me) ==
  LET diff == u.nonce - c.nonce IN
  IF diff <= 0 THEN Rejected(c, X, "latest", c.latest)
  ELSE IF diff = 1 THEN
    IF InboundValid(c, X, u)
    THEN LET s == ApplyUpdate(c, X, u, me)
         IN  [ok |-> TRUE, chan |-> s.chan, xfers |-> s.xfers, kind |-> "ok",
              update |-> s.chan.latest, nonces |-> <<u.nonce>>]
    ELSE Rejected(c, X, "error", NoUpdate)
  ELSE IF SyncsFirst(c, u, prev) THEN
    IF prev.sigs = Peers /\ InboundValid(c, X, prev)
    THEN LET s1 == ApplyUpdate(c, X, prev, me) IN
         IF InboundValid(s1.chan, s1.xfers, u)
         THEN LET s2 == ApplyUpdate(s1.chan, s1.xfers, u, me)
              IN  [ok |-> TRUE, chan |-> s2.chan, xfers |-> s2.xfers, kind |-> "ok",
                   update |-> s2.chan.latest, nonces |-> <<prev.nonce, u.nonce>>]
         ELSE Rejected(c, X, "error", NoUpdate)
    ELSE Rejected(c, X, "error", NoUpdate)
  ELSE Rejected(c, X, "error", NoUpdate)

\* ------------------------------------------------ Vector: the leader's side

\* The update parameters a caller can hand to setup, deposit, create, resolve.
\* The engine resolves only a transfer its store holds (resolveTransfer fails
\* with TransferNotFound otherwise).
ParamsOf(p) ==
  {[type |-> t, tid |-> 0, pay |-> FALSE] : t \in {"setup", "deposit", "create"}}
    \cup {[type |-> "resolve", tid |-> i, pay |-> b] :
            i \in MerkleRoot(xfers[p]), b \in BOOLEAN}

\* executeUpdate, to its first return: a non-setup update on a channel the
\* store does not hold fails with ChannelNotFound before any lock is taken.
ExecuteUpdateNoChannel(p, params) ==
  /\ op[p].pc = "idle"
  /\ params.type # "setup"
  /\ chan[p].nonce = 0
  /\ op' = [op EXCEPT ![p].res = "ChannelNotFound"]
  /\ UNCHANGED <<chan, xfers, lock, net, replies, nextInbox, evts, applied, onchainDispute,
                 restoreVars, routerVars>>

\* executeUpdate up to lockService.acquireLock, which returns once the lock
\* of the channel address is free. The peer that runs setup is the channel's
\* alice (aliceIdentifier = this.publicIdentifier).
AcquireLock(p, params) ==
  /\ op[p].pc = "idle"
  /\ nextInbox <= MaxOps
  /\ IF params.type = "setup" THEN p = "alice" ELSE chan[p].nonce # 0
  /\ lock = FreeLock
  /\ lock' = [by |-> p, kind |-> "update"]
  /\ op' = [op EXCEPT ![p] = [IdleOp EXCEPT !.pc = "locked", !.params = params]]
  /\ UNCHANGED <<chan, xfers, net, replies, nextInbox, evts, applied, onchainDispute,
                 restoreVars, routerVars>>

\* sync.outbound, steps 1 to 3: load the state, make and sign the update,
\* send it with previousUpdate to the counterparty. A first update has no
\* previousUpdate, and whether the message then still has the key is the
\* transport's (a serialised object drops an undefined field).
OutboundSend(p, keepsKey) ==
  /\ op[p].pc = "locked"
  /\ LET c == chan[p]
         X == xfers[p]
         params == op[p].params
     IN  IF ~TypeAllows(c, X, p, params.type, params.tid)
         THEN /\ op' = [op EXCEPT ![p] = [IdleOp EXCEPT !.pc = "release", !.res = "InvalidParams"]]
              /\ UNCHANGED <<net, nextInbox>>
         ELSE LET u == GenerateUpdate(c, X, p, params)
                  m == [to |-> Other(p), from |-> p, shape |-> "ok",
                        hasPrev |-> (c.latest # NoUpdate \/ keepsKey),
                        update |-> u, previousUpdate |-> c.latest, inbox |-> nextInbox]
              IN  /\ net' = net \cup {m}
                  /\ nextInbox' = nextInbox + 1
                  /\ op' = [op EXCEPT ![p] = [op[p] EXCEPT !.pc = "awaiting", !.update = u,
                                                         !.base = c, !.inbox = nextInbox]]
  /\ UNCHANGED <<chan, xfers, lock, replies, evts, applied, onchainDispute,
                 restoreVars, routerVars>>

\* The store's saveChannelState(channel, transfer): the channel record is
\* replaced, and the update's transfer is added to or removed from the
\* stored transfers (the persisted activeTransfers delta).
SaveTransferDelta(X, u) == NextTransfers(X, u)

\* Whether the reply read from the inbox is the leader's update with both
\* signatures.
ReplyVerifies(p, u, r) ==
  r.kind = "ok" /\ r.update.sigs = Peers /\ [r.update EXCEPT !.sigs = {p}] = u

\* sync.outbound, step 4, and lockedOperation's event post: the reply is read
\* from the exchange's inbox; a doubly-signed copy of the update is persisted
\* and CHANNEL_UPDATE_EVENT is posted, anything else is an error.
OutboundReply(p, r) ==
  /\ op[p].pc = "awaiting"
  /\ r \in replies
  /\ r.inbox = op[p].inbox
  /\ LET u == op[p].update IN
     IF ReplyVerifies(p, u, r)
     THEN /\ chan' = [chan EXCEPT ![p] =
                        [nonce |-> u.nonce, bal |-> u.bal, root |-> u.root,
                         latest |-> r.update, inDispute |-> op[p].base.inDispute]]
          /\ xfers' = [xfers EXCEPT ![p] = SaveTransferDelta(@, u)]
          /\ evts' = [evts EXCEPT ![p] = Append(@, u.nonce)]
          /\ applied' = [applied EXCEPT ![p] =
                           Append(@, [kind |-> "update", nonce |-> u.nonce, type |-> u.type])]
          /\ op' = [op EXCEPT ![p] = [IdleOp EXCEPT !.pc = "release", !.res = "ok"]]
     ELSE /\ op' = [op EXCEPT ![p] = [IdleOp EXCEPT !.pc = "release",
                      !.res = IF r.kind = "ok" THEN "BadSignatures"
                              ELSE IF r.kind = "latest" THEN "StaleUpdate"
                              ELSE "CounterpartyError"]]
          /\ UNCHANGED <<chan, xfers, evts, applied>>
  /\ UNCHANGED <<lock, net, replies, nextInbox, onchainDispute,
                 restoreVars, routerVars>>

\* The exchange's bounded timeout: no reply was read in time.
OutboundTimeout(p) ==
  /\ op[p].pc = "awaiting"
  /\ op' = [op EXCEPT ![p] = [IdleOp EXCEPT !.pc = "release", !.res = "Timeout"]]
  /\ UNCHANGED <<chan, xfers, lock, net, replies, nextInbox, evts, applied, onchainDispute,
                 restoreVars, routerVars>>

\* executeUpdate returning an error of lockedOperation before releaseLock.
ReleaseLockOnSuccess(p) ==
  /\ op[p].pc = "release"
  /\ lock' = IF op[p].res = "ok" THEN FreeLock ELSE lock
  /\ op' = [op EXCEPT ![p].pc = "idle"]
  /\ UNCHANGED <<chan, xfers, net, replies, nextInbox, evts, applied, onchainDispute,
                 restoreVars, routerVars>>

\* executeUpdate after lockedOperation returned, with a result or an error:
\* releaseLock, then return.
ReleaseLock(p) ==
  /\ op[p].pc = "release"
  /\ lock' = FreeLock
  /\ op' = [op EXCEPT ![p].pc = "idle"]
  /\ UNCHANGED <<chan, xfers, net, replies, nextInbox, evts, applied, onchainDispute,
                 restoreVars, routerVars>>

\* ---------------------------------------------- Vector: the inbound handler

\* A handler that drops only what the peer itself made and a message
\* without the previousUpdate key.
IgnoresOwnOnly(p, m) ==
  \/ m.from = p
  \/ ~m.hasPrev
  \/ m.update.from = p

\* The handler's filters: a message from the peer itself, an error result, a
\* message without the update or the previousUpdate key, an update that
\* fails the schema, a previousUpdate that is there and fails it, and an
\* update the peer itself made are dropped with no reply.
Ignored(p, m) ==
  \/ m.from = p
  \/ m.shape = "error"
  \/ m.shape = "noUpdate" \/ ~m.hasPrev
  \/ m.shape = "badUpdate"
  \/ (m.shape = "badPrevious" /\ m.previousUpdate # NoUpdate)
  \/ m.update.from = p

\* A handler that posts CHANNEL_UPDATE_EVENT whatever sync.inbound returned.
PostsEventAlways(res) == TRUE

\* The handler posts CHANNEL_UPDATE_EVENT unless sync.inbound failed.
PostsEvent(res) == res.ok

\* The entries the applied updates add to the peer's history.
AppliedEntries(res, m) ==
  [i \in 1..Len(res.nonces) |->
     [kind |-> "update", nonce |-> res.nonces[i],
      type |-> IF res.nonces[i] = m.update.nonce THEN m.update.type
               ELSE m.previousUpdate.type]]

\* The handler of onReceiveProtocolMessage at p, for a delivery of m: the
\* filters, then sync.inbound (which replies to the inbox), then the event.
\* The handler takes no lock.
OnReceiveProtocolMessage(p, m) ==
  /\ m \in net
  /\ m.to = p
  /\ IF Ignored(p, m)
     THEN UNCHANGED <<chan, xfers, replies, evts, applied>>
     ELSE LET res == Inbound(chan[p], xfers[p], m.update, m.previousUpdate, p) IN
          /\ chan' = [chan EXCEPT ![p] = res.chan]
          /\ xfers' = [xfers EXCEPT ![p] = res.xfers]
          /\ replies' = replies \cup {[inbox |-> m.inbox, kind |-> res.kind, update |-> res.update]}
          /\ applied' = [applied EXCEPT ![p] = @ \o AppliedEntries(res, m)]
          /\ evts' = [evts EXCEPT ![p] = IF PostsEvent(res) THEN Append(@, res.chan.nonce) ELSE @]
  /\ UNCHANGED <<lock, op, net, nextInbox, onchainDispute,
                 restoreVars, routerVars>>

\* What the transport can make of a message: an error result, a value
\* without the update key, an update or a previousUpdate that fails the
\* schema, a message that comes back to its sender, and one that the
\* counterparty sends back as its own.
Faults == {"error", "noUpdate", "badUpdate", "badPrevious", "loop", "echo"}

Faulty(m, fault) ==
  IF fault = "noUpdate" THEN [m EXCEPT !.shape = fault, !.update = NoUpdate]
  ELSE IF fault = "loop" THEN [m EXCEPT !.to = m.from]
  ELSE IF fault = "echo" THEN [m EXCEPT !.to = m.from, !.from = m.to]
  ELSE [m EXCEPT !.shape = fault]

\* Whether no leader sent m as it is.
IsFault(m) == m.shape # "ok" \/ m.update.from # m.from \/ m.to = m.from

\* The transport hands a peer's handler a message no leader sent as it is.
TransportFault(m, fault) ==
  /\ m \in net
  /\ ~IsFault(m)
  /\ fault = "badPrevious" => m.previousUpdate # NoUpdate
  /\ Cardinality({f \in net : IsFault(f)}) < MaxFaults
  /\ net' = net \cup {Faulty(m, fault)}
  /\ UNCHANGED <<chan, xfers, lock, op, replies, nextInbox, evts, applied, onchainDispute,
                 restoreVars, routerVars>>

\* ------------------------------------------- Vector: startup and the chain

\* A dispute of the channel is recorded on chain.
DisputeOnChain ==
  /\ ~onchainDispute
  /\ \E p \in Peers : chan[p].nonce > 0
  /\ onchainDispute' = TRUE
  /\ UNCHANGED <<chan, xfers, lock, op, net, replies, nextInbox, evts, applied,
                 restoreVars, routerVars>>

\* The store's saveChannelDispute(channel, dispute): the record of the
\* channel is marked as disputed.
SaveChannelDispute(c) == [c EXCEPT !.inDispute = TRUE]

\* setupServices at a start of p's node, after the handler is registered: for
\* each stored channel with a dispute on chain the dispute is saved. No lock
\* is taken. skipCheckIn skips the check, a failed chain read skips the channel.
StartupDisputeCheck(p, skipCheckIn, readFails) ==
  /\ op[p].pc = "idle"
  /\ chan[p].nonce > 0
  /\ chan' = [chan EXCEPT ![p] = IF ~skipCheckIn /\ ~readFails /\ onchainDispute
                                 THEN SaveChannelDispute(@) ELSE @]
  /\ UNCHANGED <<xfers, lock, op, net, replies, nextInbox, evts, applied, onchainDispute,
                 restoreVars, routerVars>>

\* ------------------------------------------------- engine: restoreState

\* The states a store can hold: the channel after each update of a run in
\* which alice sets the channel up, both deposit, alice creates a transfer
\* and bob resolves it.
Script ==
  << <<"alice", [type |-> "setup", tid |-> 0, pay |-> FALSE]>>,
     <<"alice", [type |-> "deposit", tid |-> 0, pay |-> FALSE]>>,
     <<"bob", [type |-> "deposit", tid |-> 0, pay |-> FALSE]>>,
     <<"alice", [type |-> "create", tid |-> 0, pay |-> FALSE]>>,
     <<"bob", [type |-> "deposit", tid |-> 0, pay |-> FALSE]>> >>

RECURSIVE StoredAfter(_)
StoredAfter(n) ==
  IF n = 0 THEN [chan |-> NoChannel, xfers |-> {}]
  ELSE LET s == StoredAfter(n - 1)
           p == Script[n][1]
           u == GenerateUpdate(s.chan, s.xfers, p, Script[n][2])
       IN  ApplyUpdate(s.chan, s.xfers, u, Other(p))

StoredStates == {StoredAfter(n) : n \in 0..Len(Script)}

\* What the holder h answers a restore request with: its stored channel and
\* active transfers, or an answer that lacks one of them, names a channel
\* address that is not the derived one, lacks a signature on latestUpdate, or
\* lists transfers the merkle root does not commit to.
Tampers == {"none", "noChannel", "noTransfers", "address", "signature", "root"}

Payload(h, tamper) ==
  [hasChannel |-> tamper # "noChannel",
   hasTransfers |-> tamper # "noTransfers",
   channel |-> IF tamper = "noChannel" THEN NoChannel
               ELSE IF tamper = "signature"
                    THEN [chan[h] EXCEPT !.latest.sigs = {h}]
               ELSE chan[h],
   activeTransfers |-> IF tamper \in {"noChannel", "noTransfers"} THEN {}
                       ELSE IF tamper = "root"
                            THEN xfers[h] \cup {[id |-> 0, initiator |-> h]}
                       ELSE xfers[h],
   addrOk |-> tamper # "address"]

\* What restoreState reads besides the payload: whether the request was
\* answered, getChannelAddress and getChannelState succeed, the save succeeds
\* and the acknowledgement is sent.
RestoreEnvs ==
  [requestOk : BOOLEAN, calcOk : BOOLEAN, getOk : BOOLEAN, saveOk : BOOLEAN, ackOk : BOOLEAN]

\* The checks of restoreState in their order: the error of the first that
\* fails, or "none".
RestoreCheck(local, payload, env) ==
  IF ~payload.hasChannel \/ ~payload.hasTransfers THEN "no data for restore"
  ELSE IF ~env.calcOk THEN "could not verify channelAddress"
  ELSE IF ~payload.addrOk THEN "invalid channelAddress"
  ELSE IF payload.channel.latest.sigs # Peers THEN "invalid signatures"
  ELSE IF MerkleRoot(payload.activeTransfers) # payload.channel.root THEN "invalid merkleRoot"
  ELSE IF ~env.getOk THEN "store.getChannelState failed"
  ELSE IF payload.channel.nonce - local.nonce <= 1 /\ payload.channel.latest.type # "setup"
       THEN "syncable state"
  ELSE "none"

\* A store that counts a save over a stored channel as one more update.
SaveChannelStateAndTransfersCounting(local, payload) ==
  [chan |-> IF local.nonce = 0 THEN payload.channel
            ELSE [payload.channel EXCEPT !.nonce = @ + 1],
   xfers |-> payload.activeTransfers]

\* store.saveChannelStateAndTransfers(channel, activeTransfers): the stored
\* channel and its active transfers are replaced.
SaveChannelStateAndTransfers(local, payload) ==
  [chan |-> payload.channel, xfers |-> payload.activeTransfers]

\* How a run of restoreState ends:
\*   res: "ok", the error it returns, or "threw" (sendResponseToCounterparty
\*        reads channel.channelAddress of a payload without a channel);
\*   sent: what it sent to the holder after the request;
\*   saved / posted: whether it saved the payload / posted RESTORE_STATE_EVENT.
\* The record rst of the last run also keeps the payload, and in "again"
\* whether the run before it was by the same requester, saved the same payload
\* and no store was lost since.
RestoreOutcome(local, payload, env) ==
  LET check == RestoreCheck(local, payload, env)
      out == [res |-> "none", sent |-> "none", saved |-> FALSE, posted |-> FALSE]
  IN  IF ~env.requestOk THEN [out EXCEPT !.res = "request failed"]
      ELSE IF ~payload.hasChannel THEN [out EXCEPT !.res = "threw"]
      ELSE IF check # "none" THEN [out EXCEPT !.res = check, !.sent = "error"]
      ELSE IF ~env.saveOk THEN [out EXCEPT !.res = "could not save state", !.sent = "error"]
      ELSE IF env.ackOk
           THEN [out EXCEPT !.res = "ok", !.sent = "ack", !.saved = TRUE, !.posted = TRUE]
      ELSE [out EXCEPT !.res = "unable to ack", !.sent = "error", !.saved = TRUE,
                       !.posted = TRUE]

\* restoreState at the requester r, answered by the other peer with payload.
RestoreState(r, payload, env) ==
  /\ rst.count < MaxRestores
  /\ op[r].pc = "idle"
  /\ LET local == chan[r]
         out == RestoreOutcome(local, payload, env)
         saved == SaveChannelStateAndTransfers(local, payload)
     IN  /\ chan' = [chan EXCEPT ![r] = IF out.saved THEN saved.chan ELSE @]
         /\ xfers' = [xfers EXCEPT ![r] = IF out.saved THEN saved.xfers ELSE @]
         /\ rst' = [pc |-> "idle", req |-> r,
                    hasData |-> payload.hasChannel /\ payload.hasTransfers,
                    channel |-> payload.channel,
                    activeTransfers |-> payload.activeTransfers,
                    addrOk |-> payload.addrOk, res |-> out.res, sent |-> out.sent,
                    posted |-> out.posted, count |-> rst.count + 1,
                    again |-> /\ rst.req = r
                              /\ rst.res \in {"ok", "unable to ack"}
                              /\ rst.channel = payload.channel
                              /\ rst.activeTransfers = payload.activeTransfers
                              /\ rst.addrOk = payload.addrOk]
  /\ UNCHANGED <<lock, op, net, replies, nextInbox, evts, applied, onchainDispute,
                 restoreLocks, dep, rebalance, fparams, nodeVars, routerVars>>

\* The store of p is lost.
ClearStore(p) ==
  /\ chan[p].nonce > 0
  /\ chan' = [chan EXCEPT ![p] = NoChannel]
  /\ xfers' = [xfers EXCEPT ![p] = {}]
  /\ rst' = [IdleRestore EXCEPT !.count = rst.count]
  /\ UNCHANGED <<lock, op, net, replies, nextInbox, evts, applied, onchainDispute,
                 restoreLocks, dep, rebalance, fparams, nodeVars, routerVars>>

\* ------------------------------------------------------ engine: deposit

\* What vector.deposit returns: success, or an error with its message and,
\* in its context, the error the counterparty answered with.
DepositResults ==
  {[isError |-> FALSE, message |-> "none", counterpartyError |-> "none"],
   [isError |-> TRUE, message |-> "BadSignatures", counterpartyError |-> "none"],
   [isError |-> TRUE, message |-> "CounterpartyFailure", counterpartyError |-> "BadSignatures"],
   [isError |-> TRUE, message |-> "CounterpartyFailure", counterpartyError |-> "StaleUpdate"],
   [isError |-> TRUE, message |-> "Timeout", counterpartyError |-> "none"]}

\* A deposit that is retried after every failure.
RecoveryFailedOrAnyError(error) == TRUE

\* recoveryFailed: the leader or the counterparty failed to recover signatures.
RecoveryFailed(error) ==
  \/ error.message = "BadSignatures"
  \/ error.counterpartyError = "BadSignatures"

\* deposit up to its loop: the parameters are validated and vector.deposit is
\* called once.
EngineDeposit(valid, result) ==
  /\ dep.pc \in {"idle", "done"}
  /\ dep' = IF ~valid
            THEN [pc |-> "done", count |-> 0, res |-> "invalid params", log |-> <<>>]
            ELSE [pc |-> "loop", count |-> 1, res |-> result, log |-> <<result>>]
  /\ UNCHANGED <<protoVars, restoreLocks, rst, rebalance, fparams, nodeVars, routerVars>>

\* The loop goes on: it has iterations left and the last result is a failure
\* to recover signatures.
DepositGoesOn ==
  /\ dep.count - 1 < DepositRetries
  /\ dep.res.isError
  /\ RecoveryFailed(dep.res)

\* An iteration of the loop that calls vector.deposit again.
DepositRetry(result) ==
  /\ dep.pc = "loop"
  /\ DepositGoesOn
  /\ dep' = [dep EXCEPT !.count = @ + 1, !.res = result, !.log = Append(@, result)]
  /\ UNCHANGED <<protoVars, restoreLocks, rst, rebalance, fparams, nodeVars, routerVars>>

\* The loop ends and deposit returns depositRes.
DepositReturn ==
  /\ dep.pc = "loop"
  /\ ~DepositGoesOn
  /\ dep' = [dep EXCEPT !.pc = "done"]
  /\ UNCHANGED <<protoVars, restoreLocks, rst, rebalance, fparams, nodeVars, routerVars>>

\* --------------------------------------------- router: rebalance profiles

ChainIds == 1..MaxChains

\* Asset ids, two of them the same address in different case.
AssetIds == {"0xaa", "0xAA", "0xbb"}

\* A configured profile; target tells apart the profiles of one chain and asset.
RebalanceProfiles == [chainId : ChainIds, assetId : AssetIds, target : {"low", "high"}]

RECURSIVE ConfigsOfLen(_)
ConfigsOfLen(n) ==
  IF n = 0 THEN {<<>>}
  ELSE {Append(c, profile) : c \in ConfigsOfLen(n - 1), profile \in RebalanceProfiles}

Configs == UNION {ConfigsOfLen(n) : n \in 0..MaxProfiles}

\* A lookup that takes the first profile of the asset, whatever its chain.
ProfileOfAsset(profile, chainId, assetId) == profile.assetId = assetId

\* The predicate of the find: profile.assetId === assetId && profile.chainId === chainId.
ProfileMatches(profile, chainId, assetId) ==
  profile.assetId = assetId /\ profile.chainId = chainId

\* Array.prototype.find: the index of the first profile from k on that
\* matches, 0 when there is none.
RECURSIVE FindFrom(_, _, _, _)
FindFrom(profiles, k, chainId, assetId) ==
  IF k > Len(profiles) THEN 0
  ELSE IF ProfileMatches(profiles[k], chainId, assetId) THEN k
  ELSE FindFrom(profiles, k + 1, chainId, assetId)

GetRebalanceProfileResult(profiles, chainId, assetId) ==
  LET k == FindFrom(profiles, 1, chainId, assetId)
  IN  IF k = 0
      THEN [isError |-> TRUE, reason |-> "UnableToGetRebalanceProfile",
            context |-> [chainId |-> chainId, assetId |-> assetId], value |-> NoProfile]
      ELSE [isError |-> FALSE, reason |-> "none",
            context |-> [chainId |-> 0, assetId |-> "none"], value |-> profiles[k]]

\* getRebalanceProfile(chainId, assetId).
GetRebalanceProfile(chainId, assetId) ==
  /\ rebalance' = [rebalance EXCEPT
                     !.looked = TRUE, !.chainId = chainId, !.assetId = assetId,
                     !.res = GetRebalanceProfileResult(rebalance.profiles, chainId, assetId)]
  /\ UNCHANGED <<protoVars, restoreLocks, rst, dep, fparams, nodeVars, routerVars>>

\* --------------------------------------- browser node: cross-chain transfer

\* Every step of the browser node leaves the rest of the system alone.
OnlyCrossChain ==
  UNCHANGED <<protoVars, restoreLocks, rst, dep, rebalance, fparams, wd, rlk, routerVars>>

\* saveCrossChainTransfer(crossChainTransferId, status, params): the record
\* of the id is replaced by the params with the status.
SaveCrossChainTransfer(c, status, error) ==
  [c EXCEPT !.rec = [status |-> status, error |-> error,
                     reconcileDeposit |-> c.run.reconcileDeposit,
                     withdrawalAddress |-> c.run.withdrawalAddress,
                     preImage |-> c.run.storePreImage,
                     withdrawalAmount |-> c.run.storeWithdrawalAmount]]

\* The run ends with a thrown error.
Throws(c, error) == [c EXCEPT !.run = [NoRun EXCEPT !.res = error]]

\* crossChainTransfer up to its first stage: the two channels are looked up,
\* and the record is saved as INITIAL with the storeParams of this run.
CrossChainTransferStart(params, channelsOk) ==
  /\ cct.run.pc = "idle"
  /\ cct.runs < MaxRuns
  /\ LET run == [NoRun EXCEPT !.pc = "deposit",
                              !.startStage = params.startStage,
                              !.reconcileDeposit = params.reconcileDeposit,
                              !.withdrawalAddress = params.withdrawalAddress,
                              !.paramsPreImage = params.preImage,
                              !.paramsWithdrawalAmount = params.withdrawalAmount,
                              !.withdrawalAmount = params.withdrawalAmount]
         c == [cct EXCEPT !.runs = @ + 1, !.run = run]
     IN  cct' = IF channelsOk
                THEN SaveCrossChainTransfer(c, CrossChainTransferStatus.INITIAL, FALSE)
                ELSE Throws(c, "Channel does not exist")
  /\ OnlyCrossChain

\* A first call of crossChainTransfer by the application: no
\* crossChainTransferId, startStage, preImage or withdrawalAmount is passed.
CrossChainTransfer(reconcileDeposit, withdrawalAddress, channelsOk) ==
  /\ cct.runs = 0
  /\ CrossChainTransferStart(
       [startStage |-> CrossChainTransferStatus.INITIAL,
        reconcileDeposit |-> reconcileDeposit, withdrawalAddress |-> withdrawalAddress,
        preImage |-> 0, withdrawalAmount |-> 0], channelsOk)

\* reclaimPendingCrossChainTransfers: a stored transfer marked with error is
\* skipped, any other is run again from its stored status with its stored
\* preImage and withdrawalAmount.
ReclaimPendingCrossChainTransfers(channelsOk) ==
  /\ cct.rec # NoRecord
  /\ ~cct.rec.error
  /\ CrossChainTransferStart(
       [startStage |-> cct.rec.status,
        reconcileDeposit |-> cct.rec.reconcileDeposit,
        withdrawalAddress |-> cct.rec.withdrawalAddress,
        preImage |-> cct.rec.preImage, withdrawalAmount |-> cct.rec.withdrawalAmount],
       channelsOk)

\* The stage before DEPOSITED: the deposit is reconciled if asked for, and
\* the record saved as DEPOSITED; then the preImage is the one passed or a
\* random one, and it enters the storeParams.
CrossChainDeposit(depositOk) ==
  /\ cct.run.pc = "deposit"
  /\ LET runs == cct.run.startStage < CrossChainTransferStatus.DEPOSITED
         drawn == cct.run.paramsPreImage = 0
         preImage == IF drawn THEN cct.drawn + 1 ELSE cct.run.paramsPreImage
         next(c) == [c EXCEPT !.run.pc = "transfer", !.run.preImage = preImage,
                              !.run.storePreImage = preImage,
                              !.drawn = IF drawn THEN @ + 1 ELSE @]
     IN  cct' =
           IF ~runs THEN next(cct)
           ELSE IF cct.run.reconcileDeposit /\ ~depositOk
           THEN Throws(SaveCrossChainTransfer(cct, CrossChainTransferStatus.INITIAL, TRUE),
                       "depositError")
           ELSE next(SaveCrossChainTransfer(
                       [cct EXCEPT !.deposits = IF cct.run.reconcileDeposit THEN @ + 1 ELSE @],
                       CrossChainTransferStatus.DEPOSITED, FALSE))
  /\ OnlyCrossChain

\* The stage before TRANSFER_1: the sender-side hashlock transfer is created
\* with the hash of the preImage, and the record saved as TRANSFER_1.
CrossChainSenderTransfer(transferOk) ==
  /\ cct.run.pc = "transfer"
  /\ LET runs == cct.run.startStage < CrossChainTransferStatus.TRANSFER_1
         next(c) == [c EXCEPT !.run.pc = "lookup"]
     IN  cct' =
           IF ~runs THEN next(cct)
           ELSE IF ~transferOk
           THEN Throws(SaveCrossChainTransfer(cct, CrossChainTransferStatus.DEPOSITED, TRUE),
                       "transferError")
           ELSE next(SaveCrossChainTransfer(
                       [cct EXCEPT !.locks = Append(@, cct.run.preImage)],
                       CrossChainTransferStatus.TRANSFER_1, FALSE))
  /\ OnlyCrossChain

\* The router forwards the sender-side transfer: the receiver-side transfer
\* with the routingId appears in the receiver channel, and a run that waits
\* for its CONDITIONAL_TRANSFER_CREATED event gets it.
ReceiverTransferCreated(amount) ==
  /\ cct.locks # <<>>
  /\ ~cct.receiver.present
  /\ LET c == [cct EXCEPT !.receiver = [present |-> TRUE, amount |-> amount,
                                        lock |-> cct.locks[1], resolved |-> FALSE]]
     IN  cct' = IF cct.run.pc = "awaitEvent"
                THEN [c EXCEPT !.run.pc = "resolve",
                               !.run.receiverTransferData = amount,
                               !.run.withdrawalAmount = amount,
                               !.run.storeWithdrawalAmount = amount]
                ELSE c
  /\ OnlyCrossChain

\* The stage before TRANSFER_2, up to the resolve: getTransferByRoutingId
\* gives the receiver-side transfer if it is there already, and its amount
\* becomes the withdrawalAmount; otherwise the run waits for the event.
CrossChainLookup(lookupOk) ==
  /\ cct.run.pc = "lookup"
  /\ LET runs == cct.run.startStage < CrossChainTransferStatus.TRANSFER_2
     IN  cct' =
           IF ~runs THEN [cct EXCEPT !.run.pc = "withdraw"]
           ELSE IF ~lookupOk THEN Throws(cct, "lookupError")
           ELSE IF cct.receiver.present
           THEN [cct EXCEPT !.run.pc = "resolve",
                            !.run.withdrawalAmount = cct.receiver.amount,
                            !.run.storeWithdrawalAmount = cct.receiver.amount]
           ELSE [cct EXCEPT !.run.pc = "awaitEvent", !.run.withdrawalAmount = 0]
  /\ OnlyCrossChain

\* The receiver-side transfer is resolved with the preImage, which the node
\* accepts for an active transfer whose lockHash is the hash of it, and the
\* record saved as TRANSFER_2 with the withdrawalAmount.
CrossChainResolve(resolveOk) ==
  /\ cct.run.pc = "resolve"
  /\ LET ok == resolveOk /\ ~cct.receiver.resolved /\ cct.receiver.lock = cct.run.preImage
     IN  cct' =
           IF ~ok
           THEN Throws(SaveCrossChainTransfer(cct, CrossChainTransferStatus.TRANSFER_1, TRUE),
                       "resolveError")
           ELSE [SaveCrossChainTransfer([cct EXCEPT !.receiver.resolved = TRUE],
                                        CrossChainTransferStatus.TRANSFER_2, FALSE)
                   EXCEPT !.run.pc = "withdraw"]
  /\ OnlyCrossChain

\* params.withdrawalAmount ?? receiverTransferData?.transfer.balance.amount[0]
WithdrawalAmount(run) ==
  IF run.paramsWithdrawalAmount # 0 THEN run.paramsWithdrawalAmount
  ELSE run.receiverTransferData

\* The end of crossChainTransfer: with a withdrawalAddress the withdrawalAmount
\* is withdrawn to it, and the record of the transfer is removed.
CrossChainWithdraw(withdrawOk) ==
  /\ cct.run.pc = "withdraw"
  /\ LET withdrawalAmount == WithdrawalAmount(cct.run)
         done(c) == [c EXCEPT !.rec = NoRecord, !.run = [NoRun EXCEPT !.res = "ok"]]
     IN  cct' =
           IF ~cct.run.withdrawalAddress THEN done(cct)
           ELSE IF withdrawalAmount = 0
           THEN Throws(cct, "Error, withdrawal amount not specified")
           ELSE IF ~withdrawOk
           THEN Throws(SaveCrossChainTransfer(cct, CrossChainTransferStatus.TRANSFER_2, TRUE),
                       "withdrawError")
           ELSE done([cct EXCEPT !.withdrawals = Append(@, withdrawalAmount)])
  /\ OnlyCrossChain

\* The page of the browser node is closed during a run: the run is gone, the
\* store is kept.
CrossChainPageClosed ==
  /\ cct.run.pc # "idle"
  /\ cct' = [cct EXCEPT !.run = [NoRun EXCEPT !.res = "closed"]]
  /\ OnlyCrossChain

\* ----------------------------------------------- engine: restore locks

\* An engine that takes no restore lock for recorded.
NeverRecorded(p) == FALSE

\* this.restoreLocks[channel.channelAddress] is set.
Recorded(p) == rlk[p].recorded # 0

\* acquireRestoreLocks up to its await: with a lock recorded it returns ok at
\* once, otherwise it asks the lock service for the lock of the channel.
AcquireRestoreLocks(p) ==
  /\ rlk[p].calls < MaxLockCalls
  /\ rlk' = [rlk EXCEPT ![p] =
       IF Recorded(p) THEN [@ EXCEPT !.calls = @ + 1, !.res = "ok"]
       ELSE [@ EXCEPT !.calls = @ + 1, !.acquiring = @ + 1, !.res = "none"]]
  /\ UNCHANGED <<protoVars, restoreLocks, rst, dep, rebalance, fparams, wd, cct, routerVars>>

\* lockService.acquireLock returns once the lock of the channel is free, and
\* the value it returns is recorded; or it throws, and nothing is recorded.
AcquireRestoreLocksReturn(p, throws) ==
  /\ rlk[p].acquiring > 0
  /\ IF throws
     THEN /\ rlk' = [rlk EXCEPT ![p].acquiring = @ - 1,
                                ![p].res = "Failed to acquire restore lock"]
          /\ UNCHANGED <<lock, restoreLocks>>
     ELSE /\ lock = FreeLock
          /\ lock' = [by |-> p, kind |-> "restore"]
          /\ rlk' = [rlk EXCEPT ![p].acquiring = @ - 1,
                                ![p].acquired = @ + 1,
                                ![p].held = rlk[p].acquired + 1,
                                ![p].recorded = rlk[p].acquired + 1,
                                ![p].res = "ok"]
          /\ restoreLocks' = [restoreLocks EXCEPT ![p] = TRUE]
  /\ UNCHANGED <<chan, xfers, op, net, replies, nextInbox, evts, applied, onchainDispute,
                 rst, dep, rebalance, fparams, wd, cct, routerVars>>

\* releaseRestoreLocks up to its await: with no lock recorded it returns ok
\* at once, otherwise it asks the lock service to release the recorded value.
ReleaseRestoreLocks(p) ==
  /\ rlk[p].calls < MaxLockCalls
  /\ rlk' = [rlk EXCEPT ![p] =
       IF ~Recorded(p) THEN [@ EXCEPT !.calls = @ + 1, !.res = "ok"]
       ELSE [@ EXCEPT !.calls = @ + 1, !.releasing = Append(@, rlk[p].recorded),
                      !.res = "none"]]
  /\ UNCHANGED <<protoVars, restoreLocks, rst, dep, rebalance, fparams, wd, cct, routerVars>>

\* lockService.releaseLock returns and the record is deleted; or it throws,
\* as it does for a value the lock is not held with, and the record is kept.
ReleaseRestoreLocksReturn(p, throws) ==
  /\ rlk[p].releasing # <<>>
  /\ LET key == Head(rlk[p].releasing) IN
     IF throws \/ key # rlk[p].held
     THEN /\ rlk' = [rlk EXCEPT ![p].releasing = Tail(@),
                                ![p].res = "Failed to release restore lock"]
          /\ UNCHANGED <<lock, restoreLocks>>
     ELSE /\ lock' = FreeLock
          /\ rlk' = [rlk EXCEPT ![p].releasing = Tail(@),
                                ![p].released = @ + 1,
                                ![p].held = 0,
                                ![p].recorded = 0,
                                ![p].res = "ok"]
          /\ restoreLocks' = [restoreLocks EXCEPT ![p] = FALSE]
  /\ UNCHANGED <<chan, xfers, op, net, replies, nextInbox, evts, applied, onchainDispute,
                 rst, dep, rebalance, fparams, wd, cct, routerVars>>

\* --------------------------------------------------- engine: withdraw

WithdrawChannels == {"S", "R"}

\* The transfers a withdraw's create can make.
WithdrawTransferIds == 1..MaxPayments

\* The transaction hash of a WITHDRAWAL_RECONCILED_EVENT; an event can come
\* without one.
TransactionHashes == {"0xh1", "0xh2", "undefined"}

\* What ends withdraw before its wait: invalid params, a failed or empty read
\* of the channel, a failed conversion of the params, a failed create.
WithdrawFailures ==
  {"InvalidParams", "StoreError", "ChannelNotFound", "ConversionError", "CreateError"}

\* An event that is taken for the withdrawal's whatever its transfer.
MatchesChannelOnly(data, channelAddress, transferId) ==
  data.channelAddress = channelAddress

\* The filter of attachOnce: the event of this channel and this transfer.
MatchesWithdrawal(data, channelAddress, transferId) ==
  data.channelAddress = channelAddress /\ data.transferId = transferId

\* withdraw up to its wait: the params are validated, the channel is read,
\* the params are converted and the transfer is created; from then on it
\* waits for the event of the reconciliation.
Withdraw(channelAddress, failure, transferId) ==
  /\ wd.pc = "idle"
  /\ wd.res = "none"
  /\ wd' = IF failure # "none"
           THEN [IdleWithdraw EXCEPT !.channelAddress = channelAddress, !.res = failure]
           ELSE [IdleWithdraw EXCEPT !.pc = "waiting", !.channelAddress = channelAddress,
                                     !.transferId = transferId]
  /\ UNCHANGED <<protoVars, restoreLocks, rst, dep, rebalance, fparams, rlk, cct, routerVars>>

\* WITHDRAWAL_RECONCILED_EVENT is posted: a waiting withdraw whose filter it
\* passes returns ok with its transactionHash; nothing else listens.
WithdrawalReconciled(data) ==
  /\ wd.pc = "waiting"
  /\ wd.clock < WithdrawTimeout
  /\ IF MatchesWithdrawal(data, wd.channelAddress, wd.transferId)
     THEN wd' = [wd EXCEPT !.pc = "idle", !.res = "ok", !.event = data,
                           !.transactionHash = data.transactionHash]
     ELSE UNCHANGED wd
  /\ UNCHANGED <<protoVars, restoreLocks, rst, dep, rebalance, fparams, rlk, cct, routerVars>>

\* Time passes while withdraw waits.
WithdrawTick ==
  /\ wd.pc = "waiting"
  /\ wd.clock < WithdrawTimeout
  /\ wd' = [wd EXCEPT !.clock = @ + TickMs]
  /\ UNCHANGED <<protoVars, restoreLocks, rst, dep, rebalance, fparams, rlk, cct, routerVars>>

\* attachOnce rejects after the timeout: the catch logs, and withdraw returns
\* ok with transactionHash undefined.
WithdrawTimesOut ==
  /\ wd.pc = "waiting"
  /\ wd.clock >= WithdrawTimeout
  /\ wd' = [wd EXCEPT !.pc = "idle", !.res = "ok", !.transactionHash = "undefined"]
  /\ UNCHANGED <<protoVars, restoreLocks, rst, dep, rebalance, fparams, rlk, cct, routerVars>>

\* ------------------------------------------- router: the forwarded params

\* Objects as functions from keys: { ...a, ...b } has the keys of both, with
\* the values of b where both have the key.
Spread(a, b) ==
  [k \in DOMAIN a \cup DOMAIN b |-> IF k \in DOMAIN b THEN b[k] ELSE a[k]]

MetaValues == {"r1", "aliceIdentifier", "bobIdentifier", "carolIdentifier"}

\* The metas of sender transfers that have their routing information.
Metas ==
  UNION {[{"routingId"} \cup K -> MetaValues] : K \in SUBSET {"senderIdentifier", "note"}}

SenderTransfers ==
  [transferTimeout : 0..MaxTimeout, initiator : Peers, meta : Metas]

\* An outgoing timeout that is never below zero.
OutgoingTimeoutClamped(transferTimeout) ==
  IF transferTimeout < TRANSFER_DECREMENT THEN 0 ELSE transferTimeout - TRANSFER_DECREMENT

\* BigNumber.from(transferTimeout).sub(TRANSFER_DECREMENT): big numbers are
\* unbounded and signed.
OutgoingTimeout(transferTimeout) == transferTimeout - TRANSFER_DECREMENT

\* initiator === senderChannel.bob ? senderChannel.bobIdentifier
\*                                  : senderChannel.aliceIdentifier
SenderIdentifier(initiator) ==
  IF initiator = "bob" THEN "bobIdentifier" ELSE "aliceIdentifier"

\* newMeta: { senderIdentifier, ...meta }.
NewMeta(transfer) ==
  Spread([senderIdentifier |-> SenderIdentifier(transfer.initiator)], transfer.meta)

\* forwardTransferCreation, lines 218 to 234: the params of the outgoing
\* transfer.
ForwardParams ==
  /\ ~fparams.made
  /\ fparams' = [fparams EXCEPT !.made = TRUE,
                                !.timeout = OutgoingTimeout(fparams.transfer.transferTimeout),
                                !.meta = NewMeta(fparams.transfer)]
  /\ UNCHANGED <<protoVars, restoreLocks, rst, dep, rebalance, nodeVars, routerVars>>

\* ------------------------------------------------ router: forwarding engine

\* The router's two channels: with the payment's sender and with its recipient.
Channels == {"S", "R"}

\* A row of the router store's queue, as queueUpdate stores it. cancel tells
\* a resolution that carries the cancelling resolver from one that carries
\* the recipient's.
QueuedUpdate(channel, type, rid, cancel) ==
  [channel |-> channel, type |-> type, rid |-> rid, cancel |-> cancel,
   status |-> "PENDING", reason |-> "none"]

\* A stored row of a type this router does not know.
UnknownUpdate == QueuedUpdate("S", "UNKNOWN", 0, FALSE)

\* What a run of forwardTransferCreation reads from its event, the node, the
\* swap table, the recipient's liveness and the transfer service.
AllForwardInputs ==
  [metaOk : BOOLEAN, senderChannel : {"ok", "error", "absent"},
   swap : {"none", "ok", "error"}, recipientChannel : {"ok", "error", "absent"},
   requireOnline : BOOLEAN, online : BOOLEAN,
   create : {"ok", "error", "errorCancel"}, cancel : {"executed", "enqueued", "failed"}]

\* An attempt that takes every transfer to require the recipient online.
AttemptTransferRequiringOnline(in) ==
  IF ~in.online
  THEN [isError |-> TRUE, shouldCancelSender |-> TRUE, created |-> FALSE,
        queued |-> FALSE, reason |-> "ReceiverOffline"]
  ELSE [isError |-> in.create # "ok", shouldCancelSender |-> (in.create = "errorCancel"),
        created |-> in.create = "ok", queued |-> FALSE,
        reason |-> IF in.create = "ok" THEN "none" ELSE "ErrorForwardingTransfer"]

\* The attempt's result: attemptTransferWithCollateralization probes the
\* recipient; offline with requireOnline is an error flagged shouldCancelSender,
\* offline without it queues the creation and returns an empty value, online
\* submits the create.
AttemptTransferWithCollateralization(in) ==
  IF ~in.online
  THEN IF in.requireOnline
       THEN [isError |-> TRUE, shouldCancelSender |-> TRUE, created |-> FALSE,
             queued |-> FALSE, reason |-> "ReceiverOffline"]
       ELSE [isError |-> FALSE, shouldCancelSender |-> FALSE, created |-> FALSE,
             queued |-> TRUE, reason |-> "none"]
  ELSE IF in.create = "ok"
       THEN [isError |-> FALSE, shouldCancelSender |-> FALSE, created |-> TRUE,
             queued |-> FALSE, reason |-> "none"]
       ELSE [isError |-> TRUE, shouldCancelSender |-> (in.create = "errorCancel"),
             created |-> FALSE, queued |-> FALSE, reason |-> "ErrorForwardingTransfer"]

\* A run that cancels the sender transfer after every failed attempt.
CancelsAfterAnyError(attempt) == attempt.isError

\* A run that cancels the sender transfer whenever no transfer was created.
CancelsWithoutTransfer(attempt) == ~attempt.created

\* Lines 247 to 266: after the attempt the sender transfer is cancelled if the
\* attempt failed with an error flagged shouldCancelSender.
CancelsAfterAttempt(attempt) == attempt.isError /\ attempt.shouldCancelSender

\* A lookup of the sender channel that only fails on a node error.
SenderChannelErrored(in) == in.senderChannel = "error"

\* Lines 127 to 147: the lookup of the sender channel failed or found none.
SenderChannelMissing(in) == in.senderChannel # "ok"

\* A run that returns the failure's reason whatever the cancellation did.
CancelResultAlwaysReason(cancel, reason) == reason

\* Lines 83 to 96 of cancelSenderTransferAndReturnError: the error of a
\* cancellation that was neither executed nor enqueued is returned, and
\* otherwise an error with the reason of the failure.
CancelResult(cancel, reason) == IF cancel = "failed" THEN "CancelError" ELSE reason

\* A lookup of the recipient channel that only fails on a store error.
RecipientChannelErrored(in) == in.recipientChannel = "error"

\* Lines 198 to 218: the lookup of the recipient channel failed or found none.
RecipientChannelMissing(in) == in.recipientChannel # "ok"

\* The point at which the run returns, and what it did by then.
\*   created / queued: an outgoing transfer was created / its creation queued;
\*   cancel: "no", or the outcome of cancelCreatedTransfer;
\*   isError / result: whether it returns Result.fail, and the reason of the
\*   error returned, or ok.
ForwardDecision(in) ==
  LET none == [created |-> FALSE, queued |-> FALSE, cancel |-> "no", isError |-> TRUE,
               result |-> "none"]
      Cancelled(did, reason) ==
        [did EXCEPT !.cancel = in.cancel,
                    !.result = CancelResult(in.cancel, reason)]
      attempt == AttemptTransferWithCollateralization(in)
      tried == [none EXCEPT !.created = attempt.created, !.queued = attempt.queued]
  IN  IF ~in.metaOk THEN [none EXCEPT !.result = "InvalidForwardingInfo"]
      ELSE IF SenderChannelMissing(in) THEN [none EXCEPT !.result = "SenderChannelNotFound"]
      ELSE IF in.swap = "error" THEN Cancelled(none, "UnableToCalculateSwap")
      ELSE IF RecipientChannelMissing(in) THEN Cancelled(none, "RecipientChannelNotFound")
      ELSE IF CancelsAfterAttempt(attempt) THEN Cancelled(tried, attempt.reason)
      ELSE IF attempt.isError THEN [tried EXCEPT !.result = attempt.reason]
      ELSE IF attempt.created THEN [tried EXCEPT !.isError = FALSE, !.result = "ok"]
      ELSE [tried EXCEPT !.result = "ReceiverOffline"]

\* The inputs a run reads are the ones that matter: an input the run does not
\* get to read is left at its first value.
ReadsInput(in) ==
  LET upTo == IF ~in.metaOk THEN 1
              ELSE IF in.senderChannel # "ok" THEN 2
              ELSE IF in.swap = "error" THEN 3
              ELSE IF in.recipientChannel # "ok" THEN 4
              ELSE IF ~in.online THEN 5
              ELSE 6
      d == ForwardDecision(in)
  IN  /\ upTo < 2 => in.senderChannel = "ok"
      /\ upTo < 3 => in.swap = "none"
      /\ upTo < 4 => in.recipientChannel = "ok"
      /\ upTo < 5 => in.online /\ ~in.requireOnline
      /\ upTo < 6 => in.create = "ok"
      /\ d.cancel = "no" => in.cancel = "executed"

ForwardInputs == {in \in AllForwardInputs : ReadsInput(in)}

\* The sender creates the transfer of payment i on its channel with the
\* router; the router's node reports it with ConditionalTransferCreated.
SenderCreatesTransfer(i) ==
  /\ senderTransfer[i] = "none"
  /\ senderTransfer' = [senderTransfer EXCEPT ![i] = "active"]
  /\ UNCHANGED <<outgoing, recipientResolved, fwd, rsl, rslCall, queue, hdl, protoVars, restoreVars>>

\* forwardTransferCreation for the created transfer of payment i.
ForwardTransferCreation(i, in) ==
  /\ senderTransfer[i] = "active"
  /\ fwd[i].state = "none"
  /\ LET d == ForwardDecision(in) IN
     /\ fwd' = [fwd EXCEPT ![i] = [state |-> "done", created |-> d.created,
                                   queued |-> d.queued, cancelled |-> d.cancel,
                                   isError |-> d.isError, result |-> d.result]]
     /\ outgoing' = [outgoing EXCEPT ![i] = IF d.created THEN @ + 1 ELSE @]
     /\ senderTransfer' = [senderTransfer EXCEPT ![i] =
                             IF d.cancel = "executed" THEN "cancelled" ELSE @]
     /\ LET added == (IF d.queued THEN <<QueuedUpdate("R", "TRANSFER_CREATION", i, FALSE)>>
                            ELSE <<>>)
                   \o (IF d.cancel = "enqueued"
                       THEN <<QueuedUpdate("S", "TRANSFER_RESOLUTION", i, TRUE)>> ELSE <<>>)
        IN  queue' = queue \o added
  /\ UNCHANGED <<recipientResolved, rsl, rslCall, hdl, protoVars, restoreVars>>

\* The router's node creates a transfer with the routingId of payment i that
\* forwards no transfer of a sender: one asked of the node itself.
NodeCreatesTransfer(i) ==
  /\ senderTransfer[i] = "none"
  /\ outgoing[i] = 0
  /\ fwd[i].state = "none"
  /\ outgoing' = [outgoing EXCEPT ![i] = 1]
  /\ UNCHANGED <<senderTransfer, recipientResolved, fwd, rsl, rslCall, queue, hdl,
                 protoVars, restoreVars>>

\* The recipient resolves the outgoing transfer of payment i; the router's
\* node reports it with ConditionalTransferResolved.
RecipientResolves(i) ==
  /\ outgoing[i] > 0
  /\ ~recipientResolved[i]
  /\ recipientResolved' = [recipientResolved EXCEPT ![i] = TRUE]
  /\ UNCHANGED <<senderTransfer, outgoing, fwd, rsl, rslCall, queue, hdl, protoVars, restoreVars>>

\* nodeService.resolveTransfer on the sender channel: only an active transfer
\* can be resolved; outcome is what the exchange with the sender gives.
ResolveOutcome(i, outcome) == IF senderTransfer[i] = "active" THEN outcome ELSE "Error"

\* A retry stored for the channel the event came from.
ResolutionUpdateOnRecipient(i) == QueuedUpdate("R", "TRANSFER_RESOLUTION", i, FALSE)

\* Lines 326 and 327: the update stored for the retry, for the channel of the
\* incoming transfer and with the resolve's parameters.
ResolutionUpdate(i) == QueuedUpdate("S", "TRANSFER_RESOLUTION", i, FALSE)

\* The transferResolver of a resolved transfer, as its event carries it.
Resolvers == {"preImage1", "preImage2"}

routerSignerAddress == "router"

\* nodeService.getTransfersByRoutingId: the transfers of payment i, the
\* sender's (the router is its responder) and the router's own (the
\* recipient is its responder).
TransfersByRoutingId(i) ==
  (IF senderTransfer[i] # "none"
   THEN <<[found |-> TRUE, channelAddress |-> "S", transferId |-> <<"S", i>>,
           responder |-> routerSignerAddress]>>
   ELSE <<>>)
  \o (IF outgoing[i] > 0
      THEN <<[found |-> TRUE, channelAddress |-> "R", transferId |-> <<"R", i>>,
              responder |-> "recipient"]>>
      ELSE <<>>)

\* transfers.find((transfer) => transfer.responder === routerSignerAddress)
IncomingTransfer(transfers) ==
  LET mine == {k \in DOMAIN transfers : transfers[k].responder = routerSignerAddress}
  IN  IF mine = {}
      THEN [found |-> FALSE, channelAddress |-> "none", transferId |-> <<"none", 0>>,
            responder |-> "none"]
      ELSE transfers[CHOOSE k \in mine : \A j \in mine : k <= j]

\* Params that name the transfer of the event, on the recipient's channel.
ResolveParamsOfEvent(incomingTransfer, transferResolver) ==
  [channelAddress |-> "R", transferId |-> <<"R", incomingTransfer.transferId[2]>>,
   transferResolver |-> transferResolver]

\* resolveParams, lines 316 to 322.
ResolveParams(incomingTransfer, transferResolver) ==
  [channelAddress |-> incomingTransfer.channelAddress,
   transferId |-> incomingTransfer.transferId,
   transferResolver |-> transferResolver]

\* forwardTransferResolution for the resolved outgoing transfer of payment i,
\* resolved by its recipient with transferResolver.
ForwardTransferResolution(i, lookupOk, outcome, transferResolver) ==
  LET incomingTransfer == IncomingTransfer(TransfersByRoutingId(i)) IN
  /\ recipientResolved[i]
  /\ rsl[i] = "none"
  /\ IF ~lookupOk \/ ~incomingTransfer.found
     THEN /\ rsl' = [rsl EXCEPT ![i] = "IncomingChannelNotFound"]
          /\ UNCHANGED <<senderTransfer, queue, rslCall>>
     ELSE /\ rslCall' = [rslCall EXCEPT ![i] = ResolveParams(incomingTransfer, transferResolver)]
          /\ IF ResolveOutcome(i, outcome) = "ok"
             THEN /\ rsl' = [rsl EXCEPT ![i] = "ok"]
                  /\ senderTransfer' = [senderTransfer EXCEPT ![i] = "resolved"]
                  /\ UNCHANGED queue
             ELSE /\ rsl' = [rsl EXCEPT ![i] = "ErrorResolvingTransfer"]
                  /\ queue' = Append(queue, ResolutionUpdate(i))
                  /\ UNCHANGED senderTransfer
  /\ UNCHANGED <<outgoing, recipientResolved, fwd, hdl, protoVars, restoreVars>>

\* ------------------------------------------------- router: check-in handler

\* store.getQueuedUpdates(channel, PENDING): the ids of the rows, in
\* insertion order.
RECURSIVE PendingFrom(_, _)
PendingFrom(k, channel) ==
  IF k > Len(queue) THEN <<>>
  ELSE IF queue[k].channel = channel /\ queue[k].status = "PENDING"
       THEN <<k>> \o PendingFrom(k + 1, channel)
       ELSE PendingFrom(k + 1, channel)

GetQueuedUpdates(channel) == PendingFrom(1, channel)

\* handleIsAlive up to its loop: skipCheckIn returns at once, the PENDING rows
\* of the channel are read, and a channel that cannot be loaded ends the run.
HandleIsAliveStart(h, channel, skipCheckIn, channelOk) ==
  /\ hdl[h].pc = "idle"
  /\ hdl' = [hdl EXCEPT ![h] =
       IF skipCheckIn THEN [IdleHandler EXCEPT !.result = "ok"]
       ELSE IF ~channelOk THEN [IdleHandler EXCEPT !.result = "CheckInError"]
       ELSE [IdleHandler EXCEPT !.pc = "loop", !.channel = channel,
                                !.todo = GetQueuedUpdates(channel)]]
  /\ UNCHANGED <<senderTransfer, outgoing, recipientResolved, fwd, rsl, rslCall, queue,
                 protoVars, restoreVars>>

\* The loop's first statement: store.setUpdateStatus(id, PROCESSING).
HandleIsAliveMark(h) ==
  /\ hdl[h].pc = "loop"
  /\ hdl[h].todo # <<>>
  /\ queue' = [queue EXCEPT ![Head(hdl[h].todo)].status = "PROCESSING"]
  /\ hdl' = [hdl EXCEPT ![h].pc = "exec"]
  /\ UNCHANGED <<senderTransfer, outgoing, recipientResolved, fwd, rsl, rslCall,
                 protoVars, restoreVars>>

\* A handler that writes no status after a failed create or resolve.
StatusKeptAfterError(error) == "PROCESSING"

\* The status written after a failed create or resolve.
StatusAfterError(error) == IF error = "Timeout" THEN "PENDING" ELSE "FAILED"

\* Failures of transferWithCollateralization before it submits the create:
\* the request for collateral is not answered in time.
CollateralFailures == {"CollateralTimeout"}

\* createRes.getError()?.context?.transferError: the error of the create the
\* node was asked for; a failure before that has no transferError.
TransferError(res) == IF res \in CollateralFailures THEN "undefined" ELSE res

\* The rest of the loop's body for the row marked: the create or resolve of
\* the row and the status written after it. Nothing is written on success.
HandleIsAliveExec(h, outcome) ==
  /\ hdl[h].pc = "exec"
  /\ outcome \in CollateralFailures => queue[Head(hdl[h].todo)].type = "TRANSFER_CREATION"
  /\ LET k == Head(hdl[h].todo)
         row == queue[k]
         res == IF row.type = "TRANSFER_RESOLUTION" THEN ResolveOutcome(row.rid, outcome)
                ELSE outcome
         error == IF row.type = "TRANSFER_CREATION" THEN TransferError(res) ELSE res
     IN  /\ IF row.type = "TRANSFER_CREATION" /\ res = "ok"
            THEN outgoing' = [outgoing EXCEPT ![row.rid] = @ + 1]
            ELSE UNCHANGED outgoing
         /\ IF row.type = "TRANSFER_RESOLUTION" /\ res = "ok"
            THEN senderTransfer' = [senderTransfer EXCEPT ![row.rid] =
                                      IF row.cancel THEN "cancelled" ELSE "resolved"]
            ELSE UNCHANGED senderTransfer
         /\ queue' = IF row.type \notin {"TRANSFER_CREATION", "TRANSFER_RESOLUTION"}
                     THEN [queue EXCEPT ![k].status = "FAILED",
                                        ![k].reason = "Unknown update type"]
                     ELSE IF res = "ok" THEN queue
                     ELSE [queue EXCEPT ![k].status = StatusAfterError(error),
                                        ![k].reason = error]
         /\ hdl' = [hdl EXCEPT ![h].pc = "loop",
                               ![h].todo = Tail(@),
                               ![h].errored =
                                 IF row.type \in {"TRANSFER_CREATION", "TRANSFER_RESOLUTION"}
                                    /\ res # "ok"
                                 THEN Append(@, k) ELSE @]
  /\ UNCHANGED <<recipientResolved, fwd, rsl, rslCall, protoVars, restoreVars>>

\* After the loop: CheckInError with the failed ids, or ok.
HandleIsAliveReturn(h) ==
  /\ hdl[h].pc = "loop"
  /\ hdl[h].todo = <<>>
  /\ hdl' = [hdl EXCEPT ![h] = [IdleHandler EXCEPT
                !.result = IF hdl[h].errored # <<>> THEN "CheckInError" ELSE "ok",
                !.errored = hdl[h].errored]]
  /\ UNCHANGED <<senderTransfer, outgoing, recipientResolved, fwd, rsl, rslCall, queue,
                 protoVars, restoreVars>>

\* ------------------------------------------------------------ specification

\* The update protocol of one channel between its two peers.
Next ==
  \/ \E p \in Peers : \E params \in ParamsOf(p) : ExecuteUpdateNoChannel(p, params)
  \/ \E p \in Peers : \E params \in ParamsOf(p) : AcquireLock(p, params)
  \/ \E p \in Peers : \E keepsKey \in BOOLEAN : OutboundSend(p, keepsKey)
  \/ \E p \in Peers : \E r \in replies : OutboundReply(p, r)
  \/ \E p \in Peers : OutboundTimeout(p)
  \/ \E p \in Peers : ReleaseLock(p)
  \/ \E p \in Peers : \E m \in net : OnReceiveProtocolMessage(p, m)

Spec == Init /\ [][Next]_vars

\* The update protocol on a funded channel whose nodes are restarted while a
\* dispute of the channel can be recorded on chain.
InitDispute == Start(FundedChannel, MaxOps - MaxDisputeOps + 1, <<>>)

NextDispute ==
  \/ \E p \in Peers : \E params \in ParamsOf(p) : AcquireLock(p, params)
  \/ \E p \in Peers : \E keepsKey \in BOOLEAN : OutboundSend(p, keepsKey)
  \/ \E p \in Peers : \E r \in replies : OutboundReply(p, r)
  \/ \E p \in Peers : OutboundTimeout(p)
  \/ \E p \in Peers : ReleaseLock(p)
  \/ \E p \in Peers : \E m \in net : OnReceiveProtocolMessage(p, m)
  \/ DisputeOnChain
  \/ \E p \in Peers : \E skipCheckIn, readFails \in BOOLEAN :
       StartupDisputeCheck(p, skipCheckIn, readFails)

SpecDispute == InitDispute /\ [][NextDispute]_vars

\* The router forwarding payments from its sender channel to its recipient
\* channel, on a store whose queue is empty or holds a row of an unknown type.
InitRouter == \E stored \in {<<>>, <<UnknownUpdate>>} : Start(FundedChannel, 1, stored)

Outcomes == {"ok", "Timeout", "Error"}

\* What a create of a queued update can come to.
CreateOutcomes == Outcomes \cup CollateralFailures

NextRouter ==
  \/ \E i \in RoutingIds : SenderCreatesTransfer(i)
  \/ \E i \in RoutingIds : \E in \in ForwardInputs : ForwardTransferCreation(i, in)
  \/ \E i \in RoutingIds : RecipientResolves(i)
  \/ \E i \in RoutingIds : \E lookupOk \in BOOLEAN : \E outcome \in Outcomes :
       \E transferResolver \in Resolvers :
         ForwardTransferResolution(i, lookupOk, outcome, transferResolver)
  \/ \E h \in Handlers : \E channel \in Channels : \E skipCheckIn, channelOk \in BOOLEAN :
       HandleIsAliveStart(h, channel, skipCheckIn, channelOk)
  \/ \E h \in Handlers : HandleIsAliveMark(h)
  \/ \E h \in Handlers : \E outcome \in CreateOutcomes : HandleIsAliveExec(h, outcome)
  \/ \E h \in Handlers : HandleIsAliveReturn(h)

SpecRouter == InitRouter /\ [][NextRouter]_vars

\* The router handling IsAlive signals at the same time: each signal starts
\* a run of handleIsAlive, whatever runs are going; every handler is the run
\* for one signal.
InitCheckIn == Start(FundedChannel, 1, <<>>)

\* The start of the run of handleIsAlive for the signal h.
HandleIsAliveOnce(h, channel, skipCheckIn, channelOk) ==
  /\ hdl[h].result = "none"
  /\ HandleIsAliveStart(h, channel, skipCheckIn, channelOk)

NextCheckIn ==
  \/ \E i \in RoutingIds : SenderCreatesTransfer(i)
  \/ \E i \in RoutingIds : \E in \in ForwardInputs : ForwardTransferCreation(i, in)
  \/ \E h \in ConcurrentHandlers : \E channel \in Channels : \E skipCheckIn, channelOk \in BOOLEAN :
       HandleIsAliveOnce(h, channel, skipCheckIn, channelOk)
  \/ \E h \in ConcurrentHandlers : HandleIsAliveMark(h)
  \/ \E h \in ConcurrentHandlers : \E outcome \in CreateOutcomes : HandleIsAliveExec(h, outcome)
  \/ \E h \in ConcurrentHandlers : HandleIsAliveReturn(h)

SpecCheckIn == InitCheckIn /\ [][NextCheckIn]_vars

\* The nodes started on stores that hold the states a and b of the channel,
\* with firstInbox the first unused reply inbox.
StartApart(a, b, firstInbox) ==
  /\ chan = [p \in Peers |-> IF p = "alice" THEN a.chan ELSE b.chan]
  /\ xfers = [p \in Peers |-> IF p = "alice" THEN a.xfers ELSE b.xfers]
  /\ applied = [p \in Peers |-> Boot(IF p = "alice" THEN a.chan ELSE b.chan)]
  /\ nextInbox = firstInbox
  /\ lock = FreeLock
  /\ op = [p \in Peers |-> IdleOp]
  /\ net = {}
  /\ replies = {}
  /\ evts = [p \in Peers |-> <<>>]
  /\ onchainDispute = FALSE
  /\ restoreLocks = [p \in Peers |-> FALSE]
  /\ rst = IdleRestore
  /\ dep = IdleDeposit
  /\ rebalance = NoLookup(<<>>)
  /\ fparams = NoParams(NoTransfer)
  /\ wd = IdleWithdraw
  /\ rlk = [p \in Peers |-> NoRestoreLock]
  /\ cct = NoCrossChainTransfer
  /\ senderTransfer = [i \in RoutingIds |-> "none"]
  /\ outgoing = [i \in RoutingIds |-> 0]
  /\ recipientResolved = [i \in RoutingIds |-> FALSE]
  /\ fwd = [i \in RoutingIds |-> NoForward]
  /\ rsl = [i \in RoutingIds |-> "none"]
  /\ rslCall = [i \in RoutingIds |-> NoCall]
  /\ queue = <<>>
  /\ hdl = [h \in ConcurrentHandlers |-> IdleHandler]

\* The peers started on stores that hold any two states of the channel, one
\* of them restoring its store from the other.
InitRestore == \E a, b \in StoredStates : StartApart(a, b, 1)

NextRestore ==
  \/ \E r \in Peers : \E tamper \in Tampers : \E env \in RestoreEnvs :
       RestoreState(r, Payload(Other(r), tamper), env)
  \/ \E p \in Peers : ClearStore(p)

SpecRestore == InitRestore /\ [][NextRestore]_vars

\* One exchange of the update protocol between peers whose stores hold any
\* two states of the channel.
InitSync == \E a, b \in StoredStates : StartApart(a, b, MaxOps)

SpecSync == InitSync /\ [][Next]_vars

\* One exchange of the update protocol over a transport that also delivers
\* messages no leader sent as they are.
InitInbound == \E c \in {NoChannel, FundedChannel} : Start(c, MaxOps, <<>>)

NextInbound ==
  \/ Next
  \/ \E m \in net : \E fault \in Faults : TransportFault(m, fault)

SpecInbound == InitInbound /\ [][NextInbound]_vars

\* One cross-chain transfer of the browser node, over failed, closed and
\* resumed runs.
NextCrossChain ==
  \/ \E reconcileDeposit, withdrawalAddress, channelsOk \in BOOLEAN :
       CrossChainTransfer(reconcileDeposit, withdrawalAddress, channelsOk)
  \/ \E channelsOk \in BOOLEAN : ReclaimPendingCrossChainTransfers(channelsOk)
  \/ \E depositOk \in BOOLEAN : CrossChainDeposit(depositOk)
  \/ \E transferOk \in BOOLEAN : CrossChainSenderTransfer(transferOk)
  \/ \E amount \in 1..TransferAmount : ReceiverTransferCreated(amount)
  \/ \E lookupOk \in BOOLEAN : CrossChainLookup(lookupOk)
  \/ \E resolveOk \in BOOLEAN : CrossChainResolve(resolveOk)
  \/ \E withdrawOk \in BOOLEAN : CrossChainWithdraw(withdrawOk)
  \/ CrossChainPageClosed

SpecCrossChain == Start(FundedChannel, 1, <<>>) /\ [][NextCrossChain]_vars

\* The engines' restore locks, under any calls of acquireRestoreLocks and
\* releaseRestoreLocks.
NextRestoreLocks ==
  \/ \E p \in Peers : AcquireRestoreLocks(p)
  \/ \E p \in Peers : \E throws \in BOOLEAN : AcquireRestoreLocksReturn(p, throws)
  \/ \E p \in Peers : ReleaseRestoreLocks(p)
  \/ \E p \in Peers : \E throws \in BOOLEAN : ReleaseRestoreLocksReturn(p, throws)

SpecRestoreLocks == Start(FundedChannel, 1, <<>>) /\ [][NextRestoreLocks]_vars

\* The engine's withdraw and the events of reconciled withdrawals.
ReconciledEvents ==
  [channelAddress : WithdrawChannels, transferId : WithdrawTransferIds,
   transactionHash : TransactionHashes]

NextWithdraw ==
  \/ \E channelAddress \in WithdrawChannels : \E failure \in WithdrawFailures \cup {"none"} :
       \E transferId \in WithdrawTransferIds : Withdraw(channelAddress, failure, transferId)
  \/ \E data \in ReconciledEvents : WithdrawalReconciled(data)
  \/ WithdrawTick
  \/ WithdrawTimesOut

SpecWithdraw == Start(FundedChannel, 1, <<>>) /\ [][NextWithdraw]_vars

\* The clock of the wait goes on and its timer fires.
SpecWithdrawFair ==
  /\ SpecWithdraw
  /\ WF_vars(WithdrawTick)
  /\ WF_vars(WithdrawTimesOut)

\* The params the router makes for any sender transfer.
InitParams ==
  \E transfer \in SenderTransfers :
    StartForwarding(FundedChannel, 1, <<>>, <<>>, transfer)

SpecParams == InitParams /\ [][ForwardParams]_vars

\* The router's lookups of rebalance profiles, under any configuration.
InitRebalance ==
  \E profiles \in Configs : StartConfigured(FundedChannel, 1, <<>>, profiles)

NextRebalance ==
  \E chainId \in ChainIds : \E assetId \in AssetIds : GetRebalanceProfile(chainId, assetId)

SpecRebalance == InitRebalance /\ [][NextRebalance]_vars

\* The engine's deposit on a funded channel.
NextDeposit ==
  \/ \E valid \in BOOLEAN : \E result \in DepositResults : EngineDeposit(valid, result)
  \/ \E result \in DepositResults : DepositRetry(result)
  \/ DepositReturn

SpecDeposit == Start(FundedChannel, 1, <<>>) /\ [][NextDeposit]_vars

\* The router's forwarding alone, with no check-in handled.
NextForward ==
  \/ \E i \in RoutingIds : SenderCreatesTransfer(i)
  \/ \E i \in RoutingIds : \E in \in ForwardInputs : ForwardTransferCreation(i, in)
  \/ \E i \in RoutingIds : RecipientResolves(i)
  \/ \E i \in RoutingIds : \E lookupOk \in BOOLEAN : \E outcome \in Outcomes :
       \E transferResolver \in Resolvers :
         ForwardTransferResolution(i, lookupOk, outcome, transferResolver)

SpecForward == InitRouter /\ [][NextForward]_vars

\* Forwarding when the router's node also holds transfers of its own, the
\* routingId of a transfer being that of no other payment.
NextResolution ==
  \/ \E i \in RoutingIds : outgoing[i] = 0 /\ SenderCreatesTransfer(i)
  \/ \E i \in RoutingIds : NodeCreatesTransfer(i)
  \/ \E i \in RoutingIds : \E in \in ForwardInputs : ForwardTransferCreation(i, in)
  \/ \E i \in RoutingIds : RecipientResolves(i)
  \/ \E i \in RoutingIds : \E lookupOk \in BOOLEAN : \E outcome \in Outcomes :
       \E transferResolver \in Resolvers :
         ForwardTransferResolution(i, lookupOk, outcome, transferResolver)

SpecResolution == InitRouter /\ [][NextResolution]_vars

\* A check-in's resolve of payment i's queued resolution that the sender answers.
AnsweredResolve(i) ==
  \E h \in Handlers :
    /\ hdl[h].pc = "exec"
    /\ queue[Head(hdl[h].todo)].rid = i
    /\ queue[Head(hdl[h].todo)].type = "TRANSFER_RESOLUTION"
    /\ \E outcome \in {"ok", "Error"} : HandleIsAliveExec(h, outcome)

\* The router's handlers run to their end, the sender keeps checking in with
\* a channel the router can load, and eventually answers a resolve.
SpecRouterFair ==
  /\ SpecRouter
  /\ \A i \in RoutingIds :
       WF_vars(\E lookupOk \in BOOLEAN : \E outcome \in Outcomes :
                 \E transferResolver \in Resolvers :
                   ForwardTransferResolution(i, lookupOk, outcome, transferResolver))
  /\ SF_vars(\E h \in Handlers : HandleIsAliveStart(h, "S", FALSE, TRUE))
  /\ WF_vars(\E h \in Handlers : HandleIsAliveMark(h))
  /\ WF_vars(\E h \in Handlers : \E outcome \in CreateOutcomes : HandleIsAliveExec(h, outcome))
  /\ WF_vars(\E h \in Handlers : HandleIsAliveReturn(h))
  /\ \A i \in RoutingIds : SF_vars(AnsweredResolve(i))

\* ------------------------------------------------- properties: the protocol

\* C1: at every peer the applied updates have nonces in steps of exactly one:
\* every update a peer applies has the nonce of the previously applied one
\* (or of the state the node started from) plus 1.
C1_NoncesStepByOne ==
  \A p \in Peers : \A i \in 2..Len(applied[p]) :
    applied[p][i].kind = "update" => applied[p][i].nonce = applied[p][i - 1].nonce + 1

\* C2: a delivery of an update whose nonce is at most the peer's nonce leaves
\* the peer's channel and transfers as they were, posts no event, and only
\* replies to the inbox with the peer's own latest update.
C2_RedeliveryIsNoOp ==
  [][\A p \in Peers : \A m \in net :
       (OnReceiveProtocolMessage(p, m) /\ ~Ignored(p, m) /\ m.update.nonce <= chan[p].nonce)
         => /\ chan' = chan
            /\ xfers' = xfers
            /\ evts' = evts
            /\ replies' = replies \cup
                 {[inbox |-> m.inbox, kind |-> "latest", update |-> chan[p].latest]}]_vars

\* An update was applied and answered, and a later delivery of it was
\* answered with the peer's latest update.
C2_Witness ==
  \E m \in net : \E r1, r2 \in replies :
    /\ r1.inbox = m.inbox /\ r1.kind = "ok"
    /\ r2.inbox = m.inbox /\ r2.kind = "latest"
    /\ chan[m.to].nonce >= m.update.nonce

\* C3: at every peer the stored channel's merkleRoot is the root of the
\* stored active transfers.
C3_MerkleRootMatches == \A p \in Peers : chan[p].root = MerkleRoot(xfers[p])

\* The funds of p's stored channel: the two balances and what its active
\* transfers lock.
Funds(p) ==
  chan[p].bal["alice"] + chan[p].bal["bob"] + TransferAmount * Cardinality(xfers[p])

\* C4: a step in which a peer applies only create or resolve updates leaves
\* the sum of the funds of its channel as it was.
C4_FundsConserved ==
  [][\A p \in Peers :
       (/\ Len(applied'[p]) > Len(applied[p])
        /\ \A i \in (Len(applied[p]) + 1)..Len(applied'[p]) :
             applied'[p][i].type \in {"create", "resolve"})
         => Funds(p)' = Funds(p)]_vars

C6_WritesUnderLock ==
  [][(chan' # chan \/ xfers' # xfers) => lock # FreeLock]_vars

Runs(i) == fwd[i].state = "none" /\ fwd'[i].state = "done"

Added == SubSeq(queue', Len(queue) + 1, Len(queue'))

Creates(i) == outgoing'[i] > outgoing[i]

EnqueuesCreation(i) ==
  \E k \in 1..Len(Added) : Added[k].rid = i /\ Added[k].type = "TRANSFER_CREATION"

Cancels(i) ==
  \/ senderTransfer[i] = "active" /\ senderTransfer'[i] = "cancelled"
  \/ \E k \in 1..Len(Added) : Added[k].rid = i /\ Added[k].cancel

\* C8 (as stated): every run of forwardTransferCreation takes exactly one of
\* the decisions create, queue, cancel.
C8_ExactlyOneDecision ==
  [][\A i \in RoutingIds :
       Runs(i) => \/ Creates(i) /\ ~EnqueuesCreation(i) /\ ~Cancels(i)
                  \/ ~Creates(i) /\ EnqueuesCreation(i) /\ ~Cancels(i)
                  \/ ~Creates(i) /\ ~EnqueuesCreation(i) /\ Cancels(i)]_vars

\* C8: a run of forwardTransferCreation takes at most one of the decisions
\* create, queue, cancel: it never both creates or enqueues the outgoing
\* transfer and cancels or enqueues the cancellation of the sender transfer.
C8_AtMostOneDecision ==
  [][\A i \in RoutingIds :
       Runs(i) => /\ ~(Creates(i) /\ EnqueuesCreation(i))
                  /\ ~((Creates(i) \/ EnqueuesCreation(i)) /\ Cancels(i))]_vars

\* Runs have created an outgoing transfer, enqueued a creation and cancelled
\* a sender transfer.
C8_Witness ==
  \E i, j \in RoutingIds :
    /\ fwd[i].state = "done" /\ (fwd[i].created \/ fwd[i].queued)
    /\ fwd[j].state = "done" /\ fwd[j].cancelled \in {"executed", "enqueued"}

\* The queued resolution of payment i, with the recipient's resolver, is in
\* one of the statuses.
QueuedResolution(i, statuses) ==
  \E k \in 1..Len(queue) :
    /\ queue[k].rid = i
    /\ queue[k].type = "TRANSFER_RESOLUTION"
    /\ ~queue[k].cancel
    /\ queue[k].status \in statuses

C10_AtMostOneProcessing ==
  \A c \in Channels :
    Cardinality({k \in 1..Len(queue) :
                   queue[k].channel = c /\ queue[k].status = "PROCESSING"}) <= 1

\* A step in which handler h finishes the create or resolve of the queued
\* update it marked, and that create or resolve succeeded.
ExecSucceeds(h) ==
  /\ hdl[h].pc = "exec"
  /\ hdl'[h].pc = "loop"
  /\ queue[Head(hdl[h].todo)].type \in {"TRANSFER_CREATION", "TRANSFER_RESOLUTION"}
  /\ hdl'[h].errored = hdl[h].errored

\* C11: when the create or resolve of a queued update succeeds in
\* handleIsAlive, the status of the update becomes COMPLETE.
C11_SuccessMarksComplete ==
  [][\A h \in Handlers :
       ExecSucceeds(h) => queue'[Head(hdl[h].todo)].status = "COMPLETE"]_vars

\* A step in which restoreState runs at the requester r.
RestoreRuns(r) == rst'.count = rst.count + 1 /\ rst'.req = r

\* The run of restoreState this step completes saved the payload.
RestoreSaves == rst'.res \in {"ok", "unable to ack"}

\* One of the checks the restore paragraph lists fails for the payload of
\* this step at the requester r: the address, a signature, the merkle root,
\* or a nonce within one of the stored nonce.
ListedCheckFails(r) ==
  /\ rst'.hasData
  /\ \/ ~rst'.addrOk
     \/ rst'.channel.latest.sigs # Peers
     \/ MerkleRoot(rst'.activeTransfers) # rst'.channel.root
     \/ rst'.channel.nonce - chan[r].nonce <= 1

\* C12: when one of the listed restore checks fails, restoreState returns a
\* failure and the requester's stored channel and transfers are unchanged.
C12_FailedCheckLeavesStore ==
  [][\A r \in Peers :
       RestoreRuns(r) /\ ListedCheckFails(r)
         => /\ rst'.res # "ok"
            /\ chan'[r] = chan[r]
            /\ xfers'[r] = xfers[r]]_vars

\* C13: restoreState saves a payload only when its nonce exceeds the stored
\* nonce (0 when no channel is stored) by more than one.
C13_SavesOnlyUnsyncable ==
  [][\A r \in Peers :
       RestoreRuns(r) /\ RestoreSaves => rst'.channel.nonce - chan[r].nonce > 1]_vars

C15_RetriesOnlyBadSignatures ==
  dep.count > 0 =>
    /\ Len(dep.log) = dep.count
    /\ dep.count <= 1 + DepositRetries
    /\ dep.res = dep.log[dep.count]
    /\ \A k \in 1..(dep.count - 1) :
         /\ dep.log[k].isError
         /\ \/ dep.log[k].message = "BadSignatures"
            \/ dep.log[k].counterpartyError = "BadSignatures"

\* deposit returned a success after DepositRetries retries, the last of them
\* after the counterparty failed to recover signatures.
C15_Witness ==
  /\ dep.pc = "done"
  /\ dep.count = 1 + DepositRetries
  /\ ~dep.res.isError
  /\ dep.log[DepositRetries].counterpartyError = "BadSignatures"

\* The inputs of the runs of forwardTransferCreation that get to the attempt
\* and find the recipient offline, with requireOnline false or absent.
OfflineNotRequired ==
  [metaOk : {TRUE}, senderChannel : {"ok"}, swap : {"none", "ok"},
   recipientChannel : {"ok"}, requireOnline : {FALSE}, online : {FALSE},
   create : {"ok", "error", "errorCancel"}, cancel : {"executed", "enqueued", "failed"}]

\* What the claims on the offline recipient share: the run enqueues one
\* TRANSFER_CREATION update, PENDING, for the recipient channel, creates no
\* outgoing transfer and does not cancel the sender transfer.
QueuesCreationOnly(i) ==
  /\ Added = <<QueuedUpdate("R", "TRANSFER_CREATION", i, FALSE)>>
  /\ ~Creates(i)
  /\ ~Cancels(i)

NoRouteReason(in) ==
  IF in.swap = "error" THEN "UnableToCalculateSwap" ELSE "RecipientChannelNotFound"

\* The inputs of the runs that find the sender channel and then cannot
\* calculate the swap or find no recipient channel.
NoRoute ==
  {in \in [metaOk : {TRUE}, senderChannel : {"ok"}, swap : {"none", "ok", "error"},
           recipientChannel : {"ok", "error", "absent"}, requireOnline : {FALSE},
           online : {TRUE}, create : {"ok"}, cancel : {"executed", "enqueued", "failed"}] :
     in.swap = "error" \/ in.recipientChannel # "ok"}

\* C17 (as stated): when the swap cannot be calculated or there is no
\* recipient channel, the run cancels the sender transfer, returns the
\* reason, and creates and queues no outgoing transfer.
C17_CancelsAndReturnsReason ==
  [][\A i \in RoutingIds : Runs(i) => \A in \in NoRoute :
       ForwardTransferCreation(i, in)
         => /\ Cancels(i)
            /\ fwd'[i].isError /\ fwd'[i].result = NoRouteReason(in)
            /\ ~Creates(i) /\ ~EnqueuesCreation(i)]_vars

\* C17: when the swap cannot be calculated or there is no recipient channel,
\* the run creates and queues no outgoing transfer and returns a failure:
\* with the reason when the cancellation of the sender transfer was executed
\* or enqueued, and the cancellation's own error when it was neither.
C17_CancelsOrReturnsCancelError ==
  [][\A i \in RoutingIds : Runs(i) => \A in \in NoRoute :
       ForwardTransferCreation(i, in)
         => /\ ~Creates(i) /\ ~EnqueuesCreation(i)
            /\ fwd'[i].isError
            /\ IF in.cancel = "failed"
               THEN ~Cancels(i) /\ fwd'[i].result = "CancelError"
               ELSE Cancels(i) /\ fwd'[i].result = NoRouteReason(in)]_vars

\* A run has cancelled the sender transfer for want of a recipient channel.
C17_Witness ==
  \E i \in RoutingIds :
    /\ fwd[i].result = "RecipientChannelNotFound"
    /\ fwd[i].cancelled = "executed"
    /\ senderTransfer[i] = "cancelled"
    /\ outgoing[i] = 0

\* C18: when the resolve of the sender-side transfer fails,
\* forwardTransferResolution enqueues one TRANSFER_RESOLUTION update, PENDING,
\* for the sender channel, with the transfer and the recipient's resolver,
\* returns ErrorResolvingTransfer and does not cancel the sender transfer.
C18_FailedResolveIsQueued ==
  [][\A i \in RoutingIds : \A lookupOk \in BOOLEAN : \A outcome \in Outcomes :
       (/\ rsl[i] = "none" /\ rsl'[i] # "none"
        /\ lookupOk
        /\ senderTransfer[i] # "none"
        /\ ResolveOutcome(i, outcome) # "ok"
        /\ \E transferResolver \in Resolvers :
             ForwardTransferResolution(i, lookupOk, outcome, transferResolver))
         => /\ Added = <<QueuedUpdate("S", "TRANSFER_RESOLUTION", i, FALSE)>>
            /\ Added[1].status = "PENDING"
            /\ rsl'[i] = "ErrorResolvingTransfer"
            /\ senderTransfer'[i] = senderTransfer[i]
            /\ ~Cancels(i)]_vars

\* A failed resolve of an active sender-side transfer has been queued.
C18_Witness ==
  \E i \in RoutingIds :
    /\ rsl[i] = "ErrorResolvingTransfer"
    /\ senderTransfer[i] = "active"
    /\ \E k \in 1..Len(queue) : queue[k] = QueuedUpdate("S", "TRANSFER_RESOLUTION", i, FALSE)

\* C19: bob's handler does not ignore the setup message of a channel with no
\* prior state, which has no previousUpdate; and a peer that stores the
\* channel at nonce 1 stores it with both signatures on the setup update and
\* the merkle root of no transfers, bob no later than alice.
C19_SetupWithoutPreviousAccepted ==
  /\ \A m \in net :
       (m.to = "bob" /\ m.update.type = "setup" /\ m.previousUpdate = NoUpdate)
         => ~Ignored("bob", m)
  /\ \A p \in Peers :
       chan[p].nonce = 1
         => /\ chan[p].latest.type = "setup"
            /\ chan[p].latest.sigs = Peers
            /\ chan[p].root = MerkleRoot({})
            /\ chan["bob"].nonce >= 1

\* The indices of the configured profiles whose chainId and assetId are the
\* ones of the last lookup.
MatchingProfiles ==
  {k \in 1..Len(rebalance.profiles) :
     /\ rebalance.profiles[k].chainId = rebalance.chainId
     /\ rebalance.profiles[k].assetId = rebalance.assetId}

\* C20: getRebalanceProfile returns a configured profile whose chainId and
\* assetId equal the arguments (the first of them), and fails, with
\* UnableToGetRebalanceProfile and the context {chainId, assetId}, exactly
\* when no configured profile matches both.
C20_ProfileOfChainAndAsset ==
  rebalance.looked =>
    /\ rebalance.res.isError <=> MatchingProfiles = {}
    /\ rebalance.res.isError =>
         /\ rebalance.res.reason = "UnableToGetRebalanceProfile"
         /\ rebalance.res.context = [chainId |-> rebalance.chainId, assetId |-> rebalance.assetId]
    /\ ~rebalance.res.isError =>
         \E k \in MatchingProfiles :
           /\ rebalance.res.value = rebalance.profiles[k]
           /\ \A j \in MatchingProfiles : k <= j

\* A lookup returned the second configured profile, the first being of the
\* same asset on another chain.
C20_Witness ==
  /\ rebalance.looked
  /\ ~rebalance.res.isError
  /\ Len(rebalance.profiles) > 1
  /\ rebalance.res.value # rebalance.profiles[1]
  /\ rebalance.profiles[1].assetId = rebalance.assetId

\* A step in which p's handler passes the delivery of m to sync.inbound.
Handles(p, m) == m.to = p /\ ~Ignored(p, m) /\ OnReceiveProtocolMessage(p, m)

\* The reply p's handler sent to the inbox of m in this step.
RepliesWith(m, kind) ==
  \E r \in replies' : r.inbox = m.inbox /\ r.kind = kind

\* C21: a peer at nonce n that receives an update with nonce n+2 whose
\* previousUpdate has nonce n+1 applies previousUpdate and then the update,
\* and ends at nonce n+2 in the state the leader stores; any other update
\* with a nonce above n+1 is answered with an error and nothing is applied.
C21_SyncsOneBehindOrRejects ==
  [][\A p \in Peers : \A m \in net :
       (m.update.nonce > chan[p].nonce + 1 /\ Handles(p, m))
         => IF m.update.nonce = chan[p].nonce + 2
               /\ m.previousUpdate.nonce = chan[p].nonce + 1
            THEN /\ chan'[p] = [nonce |-> m.update.nonce, bal |-> m.update.bal,
                                root |-> m.update.root,
                                latest |-> [m.update EXCEPT !.sigs = Peers],
                                inDispute |-> chan[p].inDispute]
                 /\ MerkleRoot(xfers'[p]) = m.update.root
                 /\ applied'[p] = applied[p] \o
                      <<[kind |-> "update", nonce |-> m.previousUpdate.nonce,
                         type |-> m.previousUpdate.type],
                        [kind |-> "update", nonce |-> m.update.nonce,
                         type |-> m.update.type]>>
                 /\ RepliesWith(m, "ok")
            ELSE /\ chan'[p] = chan[p]
                 /\ xfers'[p] = xfers[p]
                 /\ applied'[p] = applied[p]
                 /\ RepliesWith(m, "error")]_vars

\* A peer has applied the two updates of one message.
C21_Witness ==
  \E p \in Peers : \E m \in net :
    /\ m.to = p
    /\ Len(applied[p]) = 3
    /\ chan[p].nonce = applied[p][1].nonce + 2
    /\ m.update = [chan[p].latest EXCEPT !.sigs = {Other(p)}]

\* C22: every run of restoreState that fails after the holder answered the
\* request, a payload without channel or activeTransfers included, sends an
\* error message to the holder and returns a failure; it does not throw.
C22_FailureSendsError ==
  [][\A r \in Peers :
       (RestoreRuns(r) /\ rst'.res \notin {"ok", "request failed"})
         => rst'.sent = "error" /\ rst'.res # "threw"]_vars

\* C23: a run of restoreState posts RESTORE_STATE_EVENT only if it saved the
\* channel and transfers and returns ok; a run that returns a failure, also
\* when only the acknowledgement fails, posts no event.
C23_EventOnlyOnSuccess ==
  [][\A r \in Peers :
       RestoreRuns(r)
         => /\ rst'.posted => (rst'.res = "ok" /\ chan'[r] = rst'.channel
                                /\ xfers'[r] = rst'.activeTransfers)
            /\ rst'.res # "ok" => ~rst'.posted]_vars

\* The inputs of the runs whose event lacks routing information or that do
\* not find the sender channel.
NoSender ==
  {in \in [metaOk : BOOLEAN, senderChannel : {"ok", "error", "absent"}, swap : {"none"},
           recipientChannel : {"ok"}, requireOnline : {FALSE}, online : {TRUE},
           create : {"ok"}, cancel : {"executed"}] :
     ~in.metaOk \/ in.senderChannel # "ok"}

\* C24: when the meta lacks routing information, or the sender channel cannot
\* be fetched or is absent, forwardTransferCreation fails with
\* InvalidForwardingInfo or SenderChannelNotFound, and neither cancels the
\* sender transfer nor enqueues nor creates anything.
C24_NoContextNoCancellation ==
  [][\A i \in RoutingIds : Runs(i) => \A in \in NoSender :
       ForwardTransferCreation(i, in)
         => /\ fwd'[i].isError
            /\ fwd'[i].result = IF ~in.metaOk THEN "InvalidForwardingInfo"
                                ELSE "SenderChannelNotFound"
            /\ fwd'[i].cancelled = "no"
            /\ senderTransfer'[i] = senderTransfer[i]
            /\ Added = <<>>
            /\ ~Creates(i)]_vars

\* A run found no sender channel and left the sender transfer active.
C24_Witness ==
  \E i \in RoutingIds :
    /\ fwd[i].result = "SenderChannelNotFound"
    /\ senderTransfer[i] = "active"
    /\ outgoing[i] = 0
    /\ \A k \in 1..Len(queue) : queue[k].rid # i

\* The inputs of the runs whose attempt on the recipient channel fails.
AttemptFails ==
  {in \in [metaOk : {TRUE}, senderChannel : {"ok"}, swap : {"none", "ok"},
           recipientChannel : {"ok"}, requireOnline : BOOLEAN, online : BOOLEAN,
           create : {"ok", "error", "errorCancel"},
           cancel : {"executed", "enqueued", "failed"}] :
     AttemptTransferWithCollateralization(in).isError}

\* C25: after a failed attempt the router runs the cancellation of the sender
\* transfer if and only if the error is flagged shouldCancelSender; an error
\* without the flag is returned as it is, with no cancellation and nothing
\* enqueued.
C25_CancelsIffFlagged ==
  [][\A i \in RoutingIds : Runs(i) => \A in \in AttemptFails :
       ForwardTransferCreation(i, in)
         => LET attempt == AttemptTransferWithCollateralization(in)
            IN  /\ fwd'[i].cancelled # "no" <=> attempt.shouldCancelSender
                /\ (attempt.shouldCancelSender /\ in.cancel # "failed") => Cancels(i)
                /\ ~attempt.shouldCancelSender
                     => /\ fwd'[i].isError
                        /\ fwd'[i].result = attempt.reason
                        /\ ~Cancels(i)
                        /\ Added = <<>>]_vars

\* A run returned an unflagged error and left the sender transfer active, and
\* a run cancelled the sender transfer of a payment that requires the
\* recipient online.
C25_Witness ==
  \E i, j \in RoutingIds :
    /\ fwd[i].result = "ErrorForwardingTransfer"
    /\ fwd[i].cancelled = "no"
    /\ senderTransfer[i] = "active"
    /\ fwd[j].result = "ReceiverOffline"
    /\ fwd[j].cancelled = "executed"
    /\ senderTransfer[j] = "cancelled"

\* The reason of the failure for which a run cancels the sender transfer,
\* "none" for the runs that do not cancel.
FailureReason(in) ==
  IF ~in.metaOk \/ in.senderChannel # "ok" THEN "none"
  ELSE IF in.swap = "error" THEN "UnableToCalculateSwap"
  ELSE IF in.recipientChannel # "ok" THEN "RecipientChannelNotFound"
  ELSE LET attempt == AttemptTransferWithCollateralization(in)
       IN  IF attempt.isError /\ attempt.shouldCancelSender THEN attempt.reason ELSE "none"

\* The inputs of the runs that run the cancellation of the sender transfer.
RunsCancellation ==
  {in \in [metaOk : {TRUE}, senderChannel : {"ok"}, swap : {"none", "ok", "error"},
           recipientChannel : {"ok", "error", "absent"}, requireOnline : BOOLEAN,
           online : BOOLEAN, create : {"ok", "error", "errorCancel"},
           cancel : {"executed", "enqueued", "failed"}] :
     FailureReason(in) # "none"}

\* C26: a cancellation that was executed (the cancelling resolve applied to
\* the sender channel) or enqueued (stored as a pending update) is reported
\* as such, with the reason of the failure; the error of a cancellation that
\* was neither is returned itself.
C26_ReportsCancellation ==
  [][\A i \in RoutingIds : Runs(i) => \A in \in RunsCancellation :
       ForwardTransferCreation(i, in)
         => /\ fwd'[i].isError
            /\ fwd'[i].cancelled = "executed"
                 <=> (senderTransfer[i] = "active" /\ senderTransfer'[i] = "cancelled")
            /\ fwd'[i].cancelled = "enqueued"
                 <=> Added = <<QueuedUpdate("S", "TRANSFER_RESOLUTION", i, TRUE)>>
            /\ fwd'[i].cancelled \in {"executed", "enqueued"}
                 => fwd'[i].result = FailureReason(in)
            /\ fwd'[i].cancelled \notin {"executed", "enqueued"}
                 => /\ fwd'[i].result = "CancelError"
                    /\ senderTransfer'[i] = senderTransfer[i]
                    /\ Added = <<>>]_vars

\* A cancellation was enqueued and reported as enqueued with the reason.
C26_Witness ==
  \E i \in RoutingIds :
    /\ fwd[i].cancelled = "enqueued"
    /\ fwd[i].result = "UnableToCalculateSwap"
    /\ senderTransfer[i] = "active"
    /\ \E k \in 1..Len(queue) : queue[k] = QueuedUpdate("S", "TRANSFER_RESOLUTION", i, TRUE)

\* C27: for every sender transfer timeout, the timeout of the outgoing
\* transfer is the sender's timeout minus TRANSFER_DECREMENT, so the
\* forwarded transfer expires strictly before the sender-side transfer.
C27_TimeoutDecremented ==
  fparams.made =>
    /\ fparams.timeout = fparams.transfer.transferTimeout - TRANSFER_DECREMENT
    /\ fparams.timeout < fparams.transfer.transferTimeout

\* Params made for a sender transfer whose timeout is below the margin.
C27_Witness ==
  /\ fparams.made
  /\ fparams.transfer.transferTimeout < TRANSFER_DECREMENT
  /\ fparams.timeout < 0

\* C28: the meta of the outgoing transfer has every entry of the incoming
\* meta, and its senderIdentifier is the public identifier of the
\* participant of the sender channel that initiated the incoming transfer,
\* also when the incoming meta has a senderIdentifier entry of its own.
C28_SenderIdentifierSetByRouter ==
  fparams.made =>
    /\ \A k \in DOMAIN fparams.transfer.meta \ {"senderIdentifier"} :
         k \in DOMAIN fparams.meta /\ fparams.meta[k] = fparams.transfer.meta[k]
    /\ fparams.meta["senderIdentifier"] = SenderIdentifier(fparams.transfer.initiator)

\* A run of forwardTransferResolution for payment i.
Forwards(i) == rsl[i] = "none" /\ rsl'[i] # "none"

\* C29: forwardTransferResolution resolves exactly the transfer that has the
\* routingId of the resolved transfer and the router as responder, on that
\* transfer's own channel and with the recipient's transferResolver; when no
\* transfer of that routingId has the router as responder it returns
\* IncomingChannelNotFound and neither resolves nor enqueues anything.
C29_ResolvesIncomingTransfer ==
  [][\A i \in RoutingIds : Forwards(i) =>
       \A lookupOk \in BOOLEAN : \A outcome \in Outcomes : \A transferResolver \in Resolvers :
         ForwardTransferResolution(i, lookupOk, outcome, transferResolver) =>
           /\ rslCall'[i] # NoCall =>
                /\ senderTransfer[i] # "none"
                /\ rslCall'[i] = [channelAddress |-> "S", transferId |-> <<"S", i>>,
                                  transferResolver |-> transferResolver]
           /\ senderTransfer' # senderTransfer =>
                /\ rslCall'[i] # NoCall
                /\ senderTransfer' = [senderTransfer EXCEPT ![i] = "resolved"]
           /\ (lookupOk /\ senderTransfer[i] # "none") => rslCall'[i] # NoCall
           /\ senderTransfer[i] = "none" =>
                /\ rsl'[i] = "IncomingChannelNotFound"
                /\ rslCall'[i] = NoCall
                /\ UNCHANGED <<senderTransfer, queue>>]_vars

\* The router resolved the sender's transfer of a payment on the sender's
\* channel with the second resolver, and found no transfer for another.
C29_Witness ==
  /\ \E i \in RoutingIds :
       /\ rsl[i] = "ok"
       /\ senderTransfer[i] = "resolved"
       /\ rslCall[i] = [channelAddress |-> "S", transferId |-> <<"S", i>>,
                        transferResolver |-> "preImage2"]
  /\ \E i \in RoutingIds :
       /\ rsl[i] = "IncomingChannelNotFound"
       /\ senderTransfer[i] = "none"

\* The handler h runs the create or resolve of the queued update k.
Execs(h, k) ==
  /\ hdl[h].pc = "exec"
  /\ hdl'[h].pc = "loop"
  /\ Head(hdl[h].todo) = k
  /\ queue[k].type \in {"TRANSFER_CREATION", "TRANSFER_RESOLUTION"}

\* The errors that are a timeout: the node's, and the collateral request's.
IsTimeout(res) == res \in {"Timeout", "CollateralTimeout"}

\* C30: when the create or resolve of a queued update fails during check-in,
\* the status of the update becomes PENDING if and only if the underlying
\* error is a timeout, and FAILED otherwise, and the reason of the failure is
\* recorded, for TRANSFER_CREATION and TRANSFER_RESOLUTION updates alike.
C30_StatusAfterFailure ==
  [][\A h \in Handlers : \A k \in 1..Len(queue) : Execs(h, k) =>
       \A outcome \in CreateOutcomes \ {"ok"} :
         (HandleIsAliveExec(h, outcome)
            /\ (queue[k].type = "TRANSFER_RESOLUTION" => senderTransfer[queue[k].rid] = "active"))
           => /\ queue'[k].status = (IF IsTimeout(outcome) THEN "PENDING" ELSE "FAILED")
              /\ queue'[k].reason = outcome]_vars

\* The handler h has marked the update k and is having it created or resolved.
Executing(h, k) == hdl[h].pc = "exec" /\ Head(hdl[h].todo) = k

\* C31: when IsAlive signals of one channel are handled at the same time, no
\* queued update is picked up by two handlers: an update that was PENDING is
\* given to the node for creation or resolution by at most one of them.
C31_NoUpdatePickedUpTwice ==
  \A h1, h2 \in ConcurrentHandlers : \A k \in 1..Len(queue) :
    (Executing(h1, k) /\ Executing(h2, k)) => h1 = h2

\* The changes of status a queued update may go through.
StatusMoves ==
  {<<"PENDING", "PROCESSING">>, <<"PROCESSING", "COMPLETE">>,
   <<"PROCESSING", "FAILED">>, <<"PROCESSING", "PENDING">>}

\* The handler h marks the update k for execution.
Marks(h, k) ==
  /\ hdl[h].pc = "loop"
  /\ hdl'[h].pc = "exec"
  /\ Head(hdl[h].todo) = k

\* C32: the status of a queued update moves only from PENDING to PROCESSING
\* and from PROCESSING to COMPLETE, FAILED or PENDING: an update is taken for
\* execution only from PENDING, and one that is COMPLETE or FAILED is never
\* changed or executed again.
C32_StatusMovesAlongLifecycle ==
  [][\A k \in 1..Len(queue) :
       /\ queue'[k].status # queue[k].status
            => <<queue[k].status, queue'[k].status>> \in StatusMoves
       /\ \A h \in ConcurrentHandlers : Marks(h, k) => queue[k].status = "PENDING"]_vars

\* The handler h finishes the create or resolve of the update k, whatever
\* its type.
Finishes(h, k) ==
  /\ hdl[h].pc = "exec"
  /\ hdl'[h].pc = "loop"
  /\ Head(hdl[h].todo) = k

\* One run executes its updates in insertion order, one after the other, and
\* goes on after a failure.
C33_InInsertionOrder ==
  [][\A h \in Handlers : \A k \in 1..Len(queue) : Finishes(h, k) =>
       /\ hdl'[h].todo = Tail(hdl[h].todo)
       /\ \A j \in 1..Len(hdl'[h].todo) : k < hdl'[h].todo[j]
       /\ \A j \in 1..Len(hdl'[h].todo) : queue'[hdl'[h].todo[j]].status = "PENDING"]_vars

\* C33: one run of handleIsAlive executes the PENDING updates of the channel
\* one at a time in insertion order: the create or resolve of an update is
\* started only after that of the previous update has finished and its
\* status was written, and a failed update does not stop the later ones.
C33_OneAtATimeInOrder ==
  [][\A h \in Handlers : \A k \in 1..Len(queue) : Finishes(h, k) =>
       /\ hdl'[h].todo = Tail(hdl[h].todo)
       /\ \A j \in 1..Len(hdl'[h].todo) : k < hdl'[h].todo[j]
       /\ hdl'[h].todo # <<>> => queue'[k].status \in {"COMPLETE", "FAILED", "PENDING"}]_vars

\* The nonces of the updates p applied, in the order it applied them.
RECURSIVE AppliedNonces(_)
AppliedNonces(h) ==
  IF h = <<>> THEN <<>>
  ELSE IF Head(h).kind = "update" THEN <<Head(h).nonce>> \o AppliedNonces(Tail(h))
       ELSE AppliedNonces(Tail(h))

\* The leader's event is posted while it holds the lock of the channel.
C34_LeaderPostsUnderLock ==
  [][\A p \in Peers :
       (op[p].pc = "awaiting" /\ op'[p].pc = "release")
         => /\ lock.by = p /\ lock'.by = p
            /\ evts'[p] = IF op'[p].res = "ok" THEN Append(evts[p], op[p].update.nonce)
                          ELSE evts[p]]_vars

\* C34: CHANNEL_UPDATE_EVENT is emitted once for each applied update and
\* only for applied updates, in the order in which the updates are applied.
C34_EventPerAppliedUpdate ==
  \A p \in Peers : evts[p] = AppliedNonces(applied[p])

\* The messages the handler of p is to ignore: an error result, a value
\* without the update, an update or a present previousUpdate that fails the
\* schema, and a message or an update of p itself.
ToBeIgnored(p, m) ==
  \/ m.shape \in {"error", "noUpdate", "badUpdate"}
  \/ (m.shape = "badPrevious" /\ m.previousUpdate # NoUpdate)
  \/ m.from = p
  \/ m.update.from = p

\* C35: an inbound message that is an error result, lacks the update, carries
\* an update or a present previousUpdate that fails the schema, or comes from
\* the peer itself is ignored: the peer's state is unchanged, nothing is sent
\* to the reply inbox and no CHANNEL_UPDATE_EVENT is emitted.
C35_MalformedIgnored ==
  [][\A p \in Peers : \A m \in net :
       (m.to = p /\ ToBeIgnored(p, m) /\ OnReceiveProtocolMessage(p, m))
         => UNCHANGED <<chan, xfers, replies, evts, applied>>]_vars

\* A peer was handed a message whose update fails the schema after it had
\* applied the update the leader sent, and nothing was sent to the inbox of
\* the message but the reply to the leader's.
C35_Witness ==
  \E p \in Peers : \E m \in net :
    /\ m.to = p
    /\ m.shape = "badUpdate"
    /\ chan[p].latest.nonce = m.update.nonce
    /\ Cardinality({r \in replies : r.inbox = m.inbox}) = 1

\* The step is a WITHDRAWAL_RECONCILED_EVENT of the waiting withdraw's
\* channel and transfer with the transaction hash h.
Observes(h) ==
  /\ wd.pc = "waiting"
  /\ wd.clock < WithdrawTimeout
  /\ WithdrawalReconciled([channelAddress |-> wd.channelAddress,
                           transferId |-> wd.transferId, transactionHash |-> h])

HoldsForRestore(p) == lock = [by |-> p, kind |-> "restore"]

\* C37: the engine records a restore lock exactly while it holds the lock of
\* the channel for a restore: acquireRestoreLocks with a lock recorded does
\* not acquire again, releaseRestoreLocks with none recorded does nothing, a
\* failed release keeps the record, after a successful release none is
\* recorded, and every acquired restore lock is released exactly once.
C37_RecordedWhileHeld ==
  /\ [](\A p \in Peers :
          /\ restoreLocks[p] <=> HoldsForRestore(p)
          /\ restoreLocks[p] <=> rlk[p].recorded # 0
          /\ rlk[p].acquired - rlk[p].released = (IF restoreLocks[p] THEN 1 ELSE 0))
  /\ [][\A p \in Peers :
          /\ (rlk'[p].calls > rlk[p].calls /\ restoreLocks[p])
               => rlk'[p].acquiring = rlk[p].acquiring /\ UNCHANGED lock
          /\ (rlk'[p].calls > rlk[p].calls /\ ~restoreLocks[p])
               => rlk'[p].releasing = rlk[p].releasing /\ UNCHANGED <<lock, restoreLocks>>
          /\ (Len(rlk'[p].releasing) < Len(rlk[p].releasing)
                /\ rlk'[p].res = "Failed to release restore lock")
               => UNCHANGED <<lock, restoreLocks>> /\ rlk'[p].recorded = rlk[p].recorded
          /\ rlk'[p].released > rlk[p].released
               => ~restoreLocks'[p] /\ restoreLocks[p] /\ lock' = FreeLock]_vars

\* An engine made three calls, over which its restore lock was acquired once
\* and released once, and has no lock recorded.
C37_Witness ==
  \E p \in Peers :
    /\ rlk[p].calls = 3
    /\ rlk[p].acquired = 1
    /\ rlk[p].released = 1
    /\ ~restoreLocks[p]
    /\ lock = FreeLock

\* The ids in the failedIds of the handler h.
FailedIds(h) == {hdl[h].errored[j] : j \in 1..Len(hdl[h].errored)}

\* The handler h returns from a run over its queued updates.
Returns(h) == hdl[h].pc = "loop" /\ hdl'[h].pc = "idle"

\* C38: handleIsAlive returns ok if and only if every queued update it picked
\* up was executed successfully: an update that ends as FAILED or back in
\* PENDING, one of unknown type included, is in the failedIds of the
\* CheckInError returned, and a channel that cannot be loaded gives a
\* CheckInError with the status of every queued update unchanged.
C38_OkIffAllExecuted ==
  [][\A h \in Handlers :
       /\ \A k \in 1..Len(queue) :
            (Finishes(h, k) /\ queue'[k].status \in {"FAILED", "PENDING"})
              => k \in FailedIds(h)'
       /\ Returns(h)
            => /\ hdl'[h].result = "ok" <=> FailedIds(h) = {}
               /\ hdl'[h].result = "CheckInError" <=> FailedIds(h) # {}
               /\ FailedIds(h)' = FailedIds(h)
       /\ (hdl[h].pc = "idle" /\ hdl'[h] # hdl[h] /\ hdl'[h].result = "CheckInError")
            => queue' = queue]_vars

\* An update of a known type that ends as FAILED or back in PENDING is in the
\* failedIds, and the result is ok exactly when the failedIds are empty.
C38_KnownTypesReported ==
  [][\A h \in Handlers :
       /\ \A k \in 1..Len(queue) :
            (/\ Finishes(h, k)
             /\ queue[k].type \in {"TRANSFER_CREATION", "TRANSFER_RESOLUTION"}
             /\ queue'[k].status \in {"FAILED", "PENDING"})
              => k \in FailedIds(h)'
       /\ Returns(h) => (hdl'[h].result = "ok" <=> FailedIds(h) = {})
       /\ (hdl[h].pc = "idle" /\ hdl'[h] # hdl[h] /\ hdl'[h].result = "CheckInError")
            => UNCHANGED queue]_vars

\* A run of crossChainTransfer resumed from a stored status is going.
Resumed == cct.run.pc # "idle" /\ cct.runs > 1

\* C39: a cross-chain transfer resumed at a stage re-executes no stage
\* completed before it and never lowers its stored record: during the
\* resumed run the stored status does not decrease and the preImage is kept,
\* so the deposit is reconciled and the sender-side transfer created at most
\* once for the crossChainTransferId over any failed and resumed runs; a
\* record marked with error is skipped, and the record is removed only
\* after the whole transfer succeeded.
C39_ResumedNeverLowersRecord ==
  /\ [](cct.deposits <= 1 /\ Len(cct.locks) <= 1)
  /\ [][/\ (cct'.run.pc # "idle" /\ cct'.runs > 1 /\ cct.rec # NoRecord /\ cct'.rec # NoRecord)
             => /\ cct'.rec.status >= cct.rec.status
                /\ cct.rec.preImage # 0 => cct'.rec.preImage = cct.rec.preImage
        /\ (Resumed /\ cct'.deposits > cct.deposits)
             => cct.run.startStage < CrossChainTransferStatus.DEPOSITED
        /\ (Resumed /\ cct'.locks # cct.locks)
             => cct.run.startStage < CrossChainTransferStatus.TRANSFER_1
        /\ (cct.rec.error /\ cct.run.pc = "idle") => UNCHANGED <<cct.run, cct.rec, cct.runs>>
        /\ (cct.rec # NoRecord /\ cct'.rec = NoRecord) => cct'.run.res = "ok"]_vars

\* The stages run by a resumed run are those not completed before, a record
\* marked with error is skipped, and the record is removed only by a run
\* that succeeded.
C39_ResumedSkipsCompletedStages ==
  [][/\ (Resumed /\ cct'.deposits > cct.deposits)
          => cct.run.startStage < CrossChainTransferStatus.DEPOSITED
     /\ (Resumed /\ cct'.locks # cct.locks)
          => cct.run.startStage < CrossChainTransferStatus.TRANSFER_1
     /\ (Resumed /\ cct'.receiver.resolved /\ ~cct.receiver.resolved)
          => cct.run.startStage < CrossChainTransferStatus.TRANSFER_2
     /\ (cct.rec.error /\ cct.run.pc = "idle") => UNCHANGED <<cct.run, cct.rec, cct.runs>>
     /\ (cct.rec # NoRecord /\ cct'.rec = NoRecord) => cct'.run.res = "ok"]_vars

\* The run ends the withdrawal stage, the receiver-side transfer having been
\* resolved by it and a withdrawalAddress given.
EndsAfterResolve ==
  /\ cct.run.pc = "withdraw"
  /\ cct.run.startStage < CrossChainTransferStatus.TRANSFER_2
  /\ cct.run.withdrawalAddress
  /\ cct.receiver.resolved
  /\ cct'.run.pc = "idle"
  /\ cct'.run.res # "closed"

\* C40: with a withdrawalAddress given and the receiver-side transfer
\* resolved, crossChainTransfer submits a withdrawal of exactly the amount of
\* the receiver-side transfer, whether that transfer came as an event or was
\* found in the store, and never fails for a missing withdrawal amount.
C40_WithdrawsReceiverAmount ==
  [][EndsAfterResolve =>
       /\ cct'.run.res # "Error, withdrawal amount not specified"
       /\ cct'.withdrawals # cct.withdrawals
            => cct'.withdrawals = Append(cct.withdrawals, cct.receiver.amount)]_vars

\* A withdrawal that is submitted after the resolve is of the amount of the
\* receiver-side transfer, and it is submitted when the transfer came as an
\* event.
C40_EventAmountWithdrawn ==
  [][EndsAfterResolve =>
       /\ cct'.withdrawals # cct.withdrawals
            => cct'.withdrawals = Append(cct.withdrawals, cct.receiver.amount)
       /\ cct.run.receiverTransferData # 0
            => cct'.run.res # "Error, withdrawal amount not specified"]_vars

================================================================================
